---- MODULE Spec2Model ----
(***************************************************************************)
(* Registration-link pipeline of onix-v2-register (lib/url-parser):        *)
(* parseRegistrationUrl = structural checks, decodeDataParam (percent,     *)
(* base64, JSON, transformDataKeys) and validateData (zod schemas).        *)
(*                                                                         *)
(* Strings of the program are sequences of one-character strings, so that  *)
(* the regular expressions and the length checks of the code are computed  *)
(* character by character.  Fixed messages are atomic strings.             *)
(***************************************************************************)
EXTENDS Integers, Sequences, FiniteSets, TLC

\* One invocation of the pipeline.
VARIABLES entry, env, input, pc, trace, locals, result
\* Concurrent invocations of the pipeline; the store of lib/api-logger, the
\* POST requests of /api/verify/user-invite in flight and the clock.
VARIABLES calls, logs, requests, clock

vars == <<entry, env, input, pc, trace, locals, result, calls, logs, requests, clock>>

\* The state outside the single invocation.
serverVars == <<calls, logs, requests, clock>>

----------------------------------------------------------------------------
(* Characters and strings                                                  *)

LowerSeq == <<"a","b","c","d","e","f","g","h","i","j","k","l","m","n","o","p","q","r","s","t","u","v","w","x","y","z">>
UpperSeq == <<"A","B","C","D","E","F","G","H","I","J","K","L","M","N","O","P","Q","R","S","T","U","V","W","X","Y","Z">>

Range(s) == {s[i] : i \in DOMAIN s}

Lower == Range(LowerSeq)
Upper == Range(UpperSeq)
Letter == Lower \cup Upper
Digit == {"0","1","2","3","4","5","6","7","8","9"}
HexDigit == Digit \cup {"a","b","c","d","e","f","A","B","C","D","E","F"}

\* String.prototype.toLowerCase on one character.
toLowerCase(c) ==
  IF c \in Upper THEN LowerSeq[CHOOSE i \in DOMAIN UpperSeq : UpperSeq[i] = c] ELSE c

\* n copies of the character c.
Rep(c, n) == [i \in 1..n |-> c]

AllIn(s, S) == \A i \in DOMAIN s : s[i] \in S

\* String.prototype.trim: strips leading and trailing white space.
RECURSIVE trimStart(_)
trimStart(s) == IF s # <<>> /\ Head(s) = " " THEN trimStart(Tail(s)) ELSE s

RECURSIVE trimEnd(_)
trimEnd(s) == IF s # <<>> /\ s[Len(s)] = " " THEN trimEnd(SubSeq(s, 1, Len(s) - 1)) ELSE s

trim(s) == trimEnd(trimStart(s))

\* String.prototype.split on a one-character separator.
RECURSIVE split(_, _)
split(s, sep) ==
  IF \E i \in DOMAIN s : s[i] = sep
  THEN LET i == CHOOSE j \in DOMAIN s : s[j] = sep /\ \A k \in 1..(j - 1) : s[k] # sep
       IN  <<SubSeq(s, 1, i - 1)>> \o split(SubSeq(s, i + 1, Len(s)), sep)
  ELSE <<s>>

----------------------------------------------------------------------------
(* Registration types                                                      *)

T_user_invite_confirm == <<"u","s","e","r","-","i","n","v","i","t","e","-","c","o","n","f","i","r","m">>
T_user_signup_confirm == <<"u","s","e","r","-","s","i","g","n","u","p","-","c","o","n","f","i","r","m">>
T_customer_email_verification == <<"c","u","s","t","o","m","e","r","-","e","m","a","i","l","-","v","e","r","i","f","i","c","a","t","i","o","n">>
T_forgot_password == <<"f","o","r","g","o","t","-","p","a","s","s","w","o","r","d">>

REGISTRATION_TYPES ==
  <<T_user_invite_confirm, T_user_signup_confirm,
    T_customer_email_verification, T_forgot_password>>

----------------------------------------------------------------------------
(* Validation functions                                                    *)

UuidLen == 36
OrgMinLen == 2
OrgMaxLen == 50

UuidDashes == {9, 14, 19, 24}

\* /^[0-9a-f]{8}-[0-9a-f]{4}-4[0-9a-f]{3}-[89ab][0-9a-f]{3}-[0-9a-f]{12}$/i
\* isValidUUID without the version and variant digits: any 8-4-4-4-12 token.
isValidUUIDAnyVersion(token) ==
  /\ Len(token) = UuidLen
  /\ \A i \in UuidDashes : token[i] = "-"
  /\ \A i \in (1..UuidLen) \ UuidDashes : token[i] \in HexDigit

isValidUUID(token) ==
  /\ Len(token) = UuidLen
  /\ \A i \in UuidDashes : token[i] = "-"
  /\ token[15] = "4"
  /\ token[20] \in {"8", "9", "a", "b", "A", "B"}
  /\ \A i \in (1..UuidLen) \ UuidDashes : token[i] \in HexDigit

\* /^[a-z0-9_-]+$/i and 2 <= length <= 50
isValidOrganization(org) ==
  /\ org # <<>>
  /\ AllIn(org, Letter \cup Digit \cup {"_", "-"})
  /\ Len(org) >= OrgMinLen
  /\ Len(org) <= OrgMaxLen

isValidRegistrationType(type) == type \in Range(REGISTRATION_TYPES)

----------------------------------------------------------------------------
(* JavaScript values.  A value is a record [t, v]: t the kind, v the       *)
(* characters of a string or of a number or boolean literal, the entries   *)
(* [k, x] of an object in insertion order, or the elements of an array.    *)

Str(s) == [t |-> "string", v |-> s]
Num(digits) == [t |-> "number", v |-> digits]
Bool(b) == [t |-> "boolean", v |-> IF b THEN <<"true">> ELSE <<"false">>]
Null == [t |-> "null", v |-> <<>>]
Undefined == [t |-> "undefined", v |-> <<>>]
Obj(entries) == [t |-> "object", v |-> entries]
Arr(elems) == [t |-> "array", v |-> elems]

\* typeof
typeof(x) == IF x.t \in {"null", "object", "array"} THEN "object" ELSE x.t

\* ToBoolean
Truthy(x) ==
  CASE x.t = "string" -> x.v # <<>>
    [] x.t = "number" -> x.v # <<"0">>
    [] x.t = "boolean" -> x.v = <<"true">>
    [] x.t \in {"null", "undefined"} -> FALSE
    [] OTHER -> TRUE

\* a || b
Or(a, b) == IF Truthy(a) THEN a ELSE b

IndexKeys == <<"0","1","2","3","4","5","6","7","8","9">>

\* The enumerable own properties of an object or of an array, in order.
Entries(data) ==
  IF data.t = "array"
  THEN [i \in DOMAIN data.v |-> [k |-> <<IndexKeys[i]>>, x |-> data.v[i]]]
  ELSE data.v

\* key in obj, on the entries of obj
Has(e, key) == \E i \in DOMAIN e : e[i].k = key

\* obj[key]
Get(e, key) ==
  IF Has(e, key) THEN e[CHOOSE i \in DOMAIN e : e[i].k = key].x ELSE Undefined

\* obj[key] = x: an existing property keeps its place, a new one is appended.
Put(e, key, x) ==
  IF Has(e, key)
  THEN [i \in DOMAIN e |-> IF e[i].k = key THEN [k |-> key, x |-> x] ELSE e[i]]
  ELSE Append(e, [k |-> key, x |-> x])

Keys(e) == {e[i].k : i \in DOMAIN e}

----------------------------------------------------------------------------
(* transformDataKeys                                                       *)

k_Name == <<"N","a","m","e">>
k_name == <<"n","a","m","e">>
k_Email == <<"E","m","a","i","l">>
k_email == <<"e","m","a","i","l">>
k_Code == <<"C","o","d","e">>
k_code == <<"c","o","d","e">>
k_UserName == <<"U","s","e","r","N","a","m","e">>
k_Username == <<"U","s","e","r","n","a","m","e">>
k_username == <<"u","s","e","r","n","a","m","e">>
k_FirstName == <<"F","i","r","s","t","N","a","m","e">>
k_firstName == <<"f","i","r","s","t","N","a","m","e">>
k_LastName == <<"L","a","s","t","N","a","m","e">>
k_Lastname == <<"L","a","s","t","n","a","m","e">>
k_lastName == <<"l","a","s","t","N","a","m","e">>
k_Password == <<"P","a","s","s","w","o","r","d">>
k_password == <<"p","a","s","s","w","o","r","d">>
k_OrgUserId == <<"O","r","g","U","s","e","r","I","d">>
k_orgUserId == <<"o","r","g","U","s","e","r","I","d">>
k_InvitedBy == <<"I","n","v","i","t","e","d","B","y">>
k_invitedBy == <<"i","n","v","i","t","e","d","B","y">>
k_Id == <<"I","d">>
k_id == <<"i","d">>
k_customerId == <<"c","u","s","t","o","m","e","r","I","d">>
k_CustomerId == <<"C","u","s","t","o","m","e","r","I","d">>

\* Object.entries(keyMappings), in the order of the literal.
keyMappings ==
  << <<k_Name, k_name>>, <<k_name, k_name>>,
     <<k_Email, k_email>>, <<k_email, k_email>>,
     <<k_Code, k_code>>, <<k_code, k_code>>,
     <<k_UserName, k_username>>, <<k_Username, k_username>>, <<k_username, k_username>>,
     <<k_FirstName, k_firstName>>, <<k_firstName, k_firstName>>,
     <<k_LastName, k_lastName>>, <<k_Lastname, k_lastName>>, <<k_lastName, k_lastName>>,
     <<k_Password, k_password>>, <<k_password, k_password>>,
     <<k_OrgUserId, k_orgUserId>>, <<k_orgUserId, k_orgUserId>>,
     <<k_InvitedBy, k_invitedBy>>, <<k_invitedBy, k_invitedBy>> >>

\* Property names every object literal inherits from Object.prototype.
k_constructor == <<"c","o","n","s","t","r","u","c","t","o","r">>
k_toString == <<"t","o","S","t","r","i","n","g">>

ObjectPrototypeKeys == {k_constructor, k_toString}

\* key in keyMappings
MappedKeys == {keyMappings[i][1] : i \in DOMAIN keyMappings} \cup ObjectPrototypeKeys

\* The absent optional parameter registrationType (no string has this shape).
NoRegistrationType == <<"undefined">>

\* NullToUndefined that keeps null.
NullToUndefinedKept(value) == value

\* value === null ? undefined : value
NullToUndefined(value) == IF value.t = "null" THEN Undefined ELSE value

\* const idValue = data.Id || data.id
idValueOf(e) == Or(Get(e, k_Id), Get(e, k_id))

\* idTarget without the user flows: the Id value always goes to customerId.
idTargetCustomerOnly(registrationType) == k_customerId

\* The property the Id value is written to.
idTarget(registrationType) ==
  IF registrationType = T_customer_email_verification THEN k_customerId
  ELSE IF registrationType \in {T_user_signup_confirm, T_user_invite_confirm}
       THEN k_orgUserId
       ELSE k_customerId

\* mapId writing the Id value to both identifier properties.
mapIdBoth(e, registrationType) ==
  IF Has(e, k_Id) \/ Has(e, k_id)
  THEN Put(Put(<<>>, k_customerId, idValueOf(e)), k_orgUserId, idValueOf(e))
  ELSE <<>>

\* if ('Id' in data || 'id' in data) { ... }
mapId(e, registrationType) ==
  IF Has(e, k_Id) \/ Has(e, k_id)
  THEN Put(<<>>, idTarget(registrationType), idValueOf(e))
  ELSE <<>>

\* if ('customerId' in data && !transformed.customerId) { ... }
copyCustomerId(e, transformed) ==
  IF Has(e, k_customerId) /\ ~Truthy(Get(transformed, k_customerId))
  THEN Put(transformed, k_customerId, Get(e, k_customerId))
  ELSE transformed

\* mapKnownKeys that keeps the value of the first spelling it finds.
RECURSIVE mapKnownKeysFirstWins(_, _, _)
mapKnownKeysFirstWins(e, transformed, i) ==
  IF i > Len(keyMappings) THEN transformed
  ELSE LET externalKey == keyMappings[i][1]
           internalKey == keyMappings[i][2]
       IN  mapKnownKeysFirstWins(e,
             IF Has(e, externalKey) /\ ~Has(transformed, internalKey)
             THEN Put(transformed, internalKey, NullToUndefined(Get(e, externalKey)))
             ELSE transformed,
             i + 1)

\* for (const [externalKey, internalKey] of Object.entries(keyMappings)) { ... }
RECURSIVE mapKnownKeys(_, _, _)
mapKnownKeys(e, transformed, i) ==
  IF i > Len(keyMappings) THEN transformed
  ELSE LET externalKey == keyMappings[i][1]
           internalKey == keyMappings[i][2]
       IN  mapKnownKeys(e,
             IF Has(e, externalKey)
             THEN Put(transformed, internalKey, NullToUndefined(Get(e, externalKey)))
             ELSE transformed,
             i + 1)

\* key.charAt(0).toLowerCase() + key.slice(1)
camelKeyOf(key) == IF key = <<>> THEN key ELSE <<toLowerCase(Head(key))>> \o Tail(key)

\* for (const key in data) { if (!(key in keyMappings) && ...) { ... } }
RECURSIVE copyUnknownKeys(_, _, _)
copyUnknownKeys(e, transformed, i) ==
  IF i > Len(e) THEN transformed
  ELSE LET key == e[i].k
       IN  copyUnknownKeys(e,
             IF key \notin MappedKeys /\ key # k_Id /\ key # k_id /\ key # k_customerId
             THEN Put(transformed, camelKeyOf(key), NullToUndefined(e[i].x))
             ELSE transformed,
             i + 1)

transformDataKeys(data, registrationType) ==
  IF ~Truthy(data) \/ typeof(data) # "object" THEN data
  ELSE LET e == Entries(data)
       IN  Obj(copyUnknownKeys(e,
                 mapKnownKeys(e, copyCustomerId(e, mapId(e, registrationType)), 1),
                 1))

----------------------------------------------------------------------------
(* Completions: a call either returns a value or throws.                   *)

Returned(v) == [threw |-> FALSE, value |-> v]
Thrown(name, message) == [threw |-> TRUE, name |-> name, message |-> message, errors |-> <<>>]
ThrownZod(issues) == [threw |-> TRUE, name |-> "ZodError", message |-> "ZodError", errors |-> issues]

\* ParseResult<T>
Success(data) == [success |-> TRUE, data |-> data]
Failure(code, message, details) ==
  [success |-> FALSE, error |-> [code |-> code, message |-> message, details |-> details]]

ErrorCodes ==
  {"INVALID_URL", "INVALID_TOKEN", "INVALID_DATA", "MISSING_PARAM",
   "DECODE_ERROR", "VALIDATION_ERROR"}

----------------------------------------------------------------------------
(* zod                                                                     *)

InvitedByMaxLen == 100
NameMaxLen == 255

\* z.string().email(): the address pattern of zod 3
\*   /^(?!\.)(?!.*\.\.)([A-Z0-9_'+\-\.]*)[A-Z0-9_+-]@([A-Z0-9][A-Z0-9\-]*\.)+[A-Z]{2,}$/i
isEmail(s) ==
  /\ Cardinality({i \in DOMAIN s : s[i] = "@"}) = 1
  /\ s[1] # "."
  /\ \A i \in 1..(Len(s) - 1) : ~(s[i] = "." /\ s[i + 1] = ".")
  /\ LET at == CHOOSE i \in DOMAIN s : s[i] = "@"
         local == SubSeq(s, 1, at - 1)
         labels == split(SubSeq(s, at + 1, Len(s)), ".")
         n == Len(labels)
     IN  /\ local # <<>>
         /\ AllIn(local, Letter \cup Digit \cup {"_", "'", "+", "-", "."})
         /\ local[Len(local)] \in Letter \cup Digit \cup {"_", "+", "-"}
         /\ n >= 2
         /\ \A j \in 1..(n - 1) :
              /\ labels[j] # <<>>
              /\ labels[j][1] \in Letter \cup Digit
              /\ AllIn(labels[j], Letter \cup Digit \cup {"-"})
         /\ Len(labels[n]) >= 2
         /\ AllIn(labels[n], Letter)

\* z.string().uuid(): /^[0-9a-fA-F]{8}\b-[0-9a-fA-F]{4}\b-[0-9a-fA-F]{4}\b-[0-9a-fA-F]{4}\b-[0-9a-fA-F]{12}$/i
isUuidShaped(s) ==
  /\ Len(s) = UuidLen
  /\ \A i \in UuidDashes : s[i] = "-"
  /\ \A i \in (1..UuidLen) \ UuidDashes : s[i] \in HexDigit

\* One check of a string schema holds of the (trimmed) characters s.
checkHolds(check, s) ==
  CASE check.kind = "min" -> Len(s) >= check.n
    [] check.kind = "max" -> Len(s) <= check.n
    [] check.kind = "email" -> isEmail(s)
    [] check.kind = "uuid" -> isUuidShaped(s)

Min(n, message) == [kind |-> "min", n |-> n, message |-> message]
Max(n, message) == [kind |-> "max", n |-> n, message |-> message]
EmailCheck(message) == [kind |-> "email", n |-> 0, message |-> message]
UuidCheck(message) == [kind |-> "uuid", n |-> 0, message |-> message]

Field(key, optional, trimmed, checks) ==
  [key |-> key, optional |-> optional, trim |-> trimmed, checks |-> checks]

\* UserInviteDataSchema without .trim() on invitedBy.
UserInviteDataSchemaUntrimmed ==
  << Field(k_username, FALSE, FALSE, <<Min(1, "Username is required")>>),
     Field(k_email, FALSE, FALSE, <<EmailCheck("Invalid email address")>>),
     Field(k_orgUserId, TRUE, FALSE, <<UuidCheck("Organization User ID must be a valid UUID")>>),
     Field(k_invitedBy, FALSE, FALSE,
           <<Min(1, "Invited By is required"),
             Max(InvitedByMaxLen, "Invited By must not exceed 100 characters")>>) >>

UserInviteDataSchema ==
  << Field(k_username, FALSE, FALSE, <<Min(1, "Username is required")>>),
     Field(k_email, FALSE, FALSE, <<EmailCheck("Invalid email address")>>),
     Field(k_orgUserId, TRUE, FALSE, <<UuidCheck("Organization User ID must be a valid UUID")>>),
     Field(k_invitedBy, FALSE, TRUE,
           <<Min(1, "Invited By is required"),
             Max(InvitedByMaxLen, "Invited By must not exceed 100 characters")>>) >>

UserSignupDataSchema ==
  << Field(k_username, TRUE, FALSE, <<Min(1, "Username is required")>>),
     Field(k_email, FALSE, FALSE, <<EmailCheck("Invalid email address")>>),
     Field(k_firstName, TRUE, FALSE, <<>>),
     Field(k_lastName, TRUE, FALSE, <<>>),
     Field(k_orgUserId, TRUE, FALSE, <<UuidCheck("Organization User ID must be a valid UUID")>>) >>

CustomerVerificationDataSchema ==
  << Field(k_customerId, FALSE, FALSE, <<Min(1, "Customer ID is required")>>),
     Field(k_name, FALSE, FALSE,
           <<Min(1, "Name is required"),
             Max(NameMaxLen, "Name must not exceed 255 characters")>>),
     Field(k_email, FALSE, FALSE, <<EmailCheck("Invalid email address")>>) >>

ForgotPasswordDataSchema ==
  << Field(k_username, FALSE, FALSE, <<Min(1, "Username is required")>>),
     Field(k_email, FALSE, FALSE, <<EmailCheck("Invalid email address")>>) >>

Issue(code, path, message) == [code |-> code, path |-> path, message |-> message]

\* The failing checks of a string schema, in the order of the checks.
RECURSIVE checkIssues(_, _, _, _)
checkIssues(field, s, i, acc) ==
  IF i > Len(field.checks) THEN acc
  ELSE checkIssues(field, s, i + 1,
         IF checkHolds(field.checks[i], s) THEN acc
         ELSE Append(acc,
                Issue(IF field.checks[i].kind = "min" THEN "too_small"
                      ELSE IF field.checks[i].kind = "max" THEN "too_big"
                      ELSE "invalid_string",
                      <<field.key>>, field.checks[i].message)))

\* The issues one property of the input raises under its field schema.
fieldIssues(field, x) ==
  IF x.t = "undefined"
  THEN IF field.optional THEN <<>>
       ELSE <<Issue("invalid_type", <<field.key>>, "Required")>>
  ELSE IF x.t # "string"
       THEN <<Issue("invalid_type", <<field.key>>, "Expected string, received " \o x.t)>>
       ELSE checkIssues(field, IF field.trim THEN trim(x.v) ELSE x.v, 1, <<>>)

\* The parsed value of one property (z.string().trim() returns the trimmed string).
fieldValue(field, x) ==
  IF x.t = "string" /\ field.trim THEN Str(trim(x.v)) ELSE x

\* objectIssues that stops at the first property that raises an issue.
RECURSIVE objectIssuesFirstOnly(_, _, _)
objectIssuesFirstOnly(schema, e, i) ==
  IF i > Len(schema) THEN <<>>
  ELSE LET issues == fieldIssues(schema[i], Get(e, schema[i].key))
       IN  IF issues # <<>> THEN issues ELSE objectIssuesFirstOnly(schema, e, i + 1)

\* The issues of z.object(): those of every declared property, in schema order.
RECURSIVE objectIssues(_, _, _)
objectIssues(schema, e, i) ==
  IF i > Len(schema) THEN <<>>
  ELSE fieldIssues(schema[i], Get(e, schema[i].key)) \o objectIssues(schema, e, i + 1)

\* objectValue of a schema with .passthrough(): undeclared keys are kept.
objectValuePassthrough(schema, e, i) == e

\* The output of z.object(): the declared keys that are set or present in
\* the input, in schema order; unknown keys are stripped.
RECURSIVE objectValue(_, _, _)
objectValue(schema, e, i) ==
  IF i > Len(schema) THEN <<>>
  ELSE LET key == schema[i].key
           x == Get(e, key)
       IN  (IF x.t # "undefined" \/ Has(e, key)
            THEN <<[k |-> key, x |-> fieldValue(schema[i], x)]>>
            ELSE <<>>) \o objectValue(schema, e, i + 1)

\* schema.parse(data)
schemaParse(schema, data) ==
  IF data.t # "object"
  THEN ThrownZod(<<Issue("invalid_type", <<>>,
                         IF data.t = "undefined" THEN "Required"
                         ELSE "Expected object, received " \o data.t)>>)
  ELSE LET issues == objectIssues(schema, data.v, 1)
       IN  IF issues = <<>> THEN Returned(Obj(objectValue(schema, data.v, 1)))
           ELSE ThrownZod(issues)

----------------------------------------------------------------------------
(* validateData                                                            *)

\* schemaFor with the schema of customer-email-verification for forgot-password.
schemaForForgotAsCustomer(registrationType) ==
  CASE registrationType = T_user_invite_confirm -> UserInviteDataSchema
    [] registrationType = T_user_signup_confirm -> UserSignupDataSchema
    [] registrationType = T_customer_email_verification -> CustomerVerificationDataSchema
    [] registrationType = T_forgot_password -> CustomerVerificationDataSchema

\* switch (registrationType)
schemaFor(registrationType) ==
  CASE registrationType = T_user_invite_confirm -> UserInviteDataSchema
    [] registrationType = T_user_signup_confirm -> UserSignupDataSchema
    [] registrationType = T_customer_email_verification -> CustomerVerificationDataSchema
    [] registrationType = T_forgot_password -> ForgotPasswordDataSchema

\* Array.prototype.join: the parts with the separator between them.
RECURSIVE join(_, _)
join(parts, separator) ==
  IF parts = <<>> THEN <<>>
  ELSE IF Len(parts) = 1 THEN <<parts[1]>>
  ELSE <<parts[1], separator>> \o join(Tail(parts), separator)

\* err.path.join('.') + ': ' + err.message, for every issue
fieldErrors(issues) ==
  [i \in DOMAIN issues |-> <<join(issues[i].path, "."), ": ", issues[i].message>>]

\* The catch block of validateData.
validateCatch(c) ==
  IF c.name = "ZodError"
  THEN Failure("VALIDATION_ERROR",
               <<"Data validation failed: ">> \o join(fieldErrors(c.errors), ", "),
               c.errors)
  ELSE Failure("VALIDATION_ERROR", <<"Data validation failed">>, <<c.message>>)

\* validateData without its catch block: the error of the schema escapes.
validateDataNoCatch(registrationType, data) ==
  IF ~isValidRegistrationType(registrationType)
  THEN Returned(Failure("INVALID_DATA",
                        <<"Unknown registration type: ", registrationType>>, <<>>))
  ELSE LET c == schemaParse(schemaFor(registrationType), data)
       IN  IF c.threw THEN c ELSE Returned(Success(c.value))

\* validateData with a default schema in place of the default branch of the switch.
validateDataDefaultSchema(registrationType, data) ==
  LET schema == IF isValidRegistrationType(registrationType)
                THEN schemaFor(registrationType)
                ELSE ForgotPasswordDataSchema
      c == schemaParse(schema, data)
  IN  IF c.threw THEN Returned(validateCatch(c)) ELSE Returned(Success(c.value))

validateData(registrationType, data) ==
  IF ~isValidRegistrationType(registrationType)
  THEN Returned(Failure("INVALID_DATA",
                        <<"Unknown registration type: ", registrationType>>, <<>>))
  ELSE LET c == schemaParse(schemaFor(registrationType), data)
       IN  IF c.threw THEN Returned(validateCatch(c))
           ELSE Returned(Success(c.value))

----------------------------------------------------------------------------
(* The data parameter.  An encoded string is modelled by its layers: the   *)
(* percent-encoded string holds a base64 string, which holds a text, which *)
(* holds the JSON value it denotes; ok tells whether the layer is well     *)
(* formed.  The inner of a base64 string with characters outside the       *)
(* alphabet is the text the lenient decoder of Node.js produces.           *)

JsonText(ok, value) == [layer |-> "json", ok |-> ok, empty |-> FALSE, inner |-> value]
Base64(ok, text) == [layer |-> "base64", ok |-> ok, empty |-> FALSE, inner |-> text]
Percent(ok, b64) == [layer |-> "percent", ok |-> ok, empty |-> FALSE, inner |-> b64]

\* The empty string: it decodes to itself, and is no JSON text.
EmptyText == [layer |-> "json", ok |-> FALSE, empty |-> TRUE, inner |-> Undefined]
EmptyBase64 == [layer |-> "base64", ok |-> TRUE, empty |-> TRUE, inner |-> EmptyText]
EmptyString == [layer |-> "percent", ok |-> TRUE, empty |-> TRUE, inner |-> EmptyBase64]

\* searchParams.get('data') of a link without the parameter.
NullParam == [layer |-> "null", ok |-> FALSE, empty |-> TRUE, inner |-> Undefined]

decodeURIComponent(encoded) ==
  IF encoded.ok THEN Returned(encoded.inner) ELSE Thrown("URIError", "URI malformed")

\* atob in the browser, Buffer.from(s, 'base64').toString('utf-8') in Node.js.
base64Decode(b64, browser) ==
  IF browser /\ ~b64.ok
  THEN Thrown("InvalidCharacterError", "The string to be decoded is not correctly encoded.")
  ELSE Returned(b64.inner)

JSONparse(text) ==
  IF text.ok THEN Returned(text.inner)
  ELSE Thrown("SyntaxError", "Unexpected token in JSON")

\* Steps 1 to 3 of decodeDataParam.
decodeSteps(encodedData, browser) ==
  LET urlDecoded == decodeURIComponent(encodedData)
  IN  IF urlDecoded.threw THEN urlDecoded
      ELSE LET base64Decoded == base64Decode(urlDecoded.value, browser)
           IN  IF base64Decoded.threw THEN base64Decoded
               ELSE JSONparse(base64Decoded.value)

\* Step 4 and the return of decodeDataParam.
decodeReturn(jsonData, registrationType) ==
  Success(transformDataKeys(jsonData, registrationType))

\* The catch block of decodeDataParam.
decodeCatch(c) ==
  Failure("DECODE_ERROR",
          <<"Failed to decode data parameter. Please check your registration link.">>,
          <<c.message>>)

decodeDataParam(encodedData, registrationType, browser) ==
  LET c == decodeSteps(encodedData, browser)
  IN  IF c.threw THEN Returned(decodeCatch(c))
      ELSE Returned(decodeReturn(c.value, registrationType))

----------------------------------------------------------------------------
(* parseRegistrationUrl                                                    *)

\* A link: valid tells whether new URL(url) accepts it, pathname is
\* urlObj.pathname and data is urlObj.searchParams.get('data').
Url(valid, pathname, data) == [valid |-> valid, pathname |-> pathname, data |-> data]

\* pathname.split('/').filter(Boolean)
pathPartsOf(pathname) == SelectSeq(split(pathname, "/"), LAMBDA part : part # <<>>)

\* missingParam that takes only the empty string for a missing parameter.
missingParamEmptyOnly(dataParam) == dataParam.layer # "null" /\ dataParam.empty

\* !dataParam
missingParam(dataParam) == dataParam.layer = "null" \/ dataParam.empty

ParsedLink(organization, registrationType, token, dataParam) ==
  [ok |-> TRUE, organization |-> organization, registrationType |-> registrationType,
   token |-> token, dataParam |-> dataParam, failure |-> Failure("", <<>>, <<>>)]

Rejected(failure) ==
  [ok |-> FALSE, organization |-> <<>>, registrationType |-> <<>>,
   token |-> <<>>, dataParam |-> NullParam, failure |-> failure]

\* structuralChecks with the data parameter looked for before the token is checked.
structuralChecksDataFirst(pathParts, dataParam) ==
  IF Len(pathParts) # 3
  THEN Rejected(Failure("INVALID_URL",
         <<"Invalid URL format. Expected: /<organization>/<registration-type>/<token>">>, <<>>))
  ELSE LET organization == pathParts[1]
           registrationType == pathParts[2]
           token == pathParts[3]
       IN  IF ~isValidOrganization(organization)
           THEN Rejected(Failure("INVALID_URL",
                  <<"Invalid organization name: ", organization>>, <<>>))
           ELSE IF ~isValidRegistrationType(registrationType)
           THEN Rejected(Failure("INVALID_URL",
                  <<"Invalid registration type: ", registrationType,
                    ". Must be one of: ", REGISTRATION_TYPES>>, <<>>))
           ELSE IF missingParam(dataParam)
           THEN Rejected(Failure("MISSING_PARAM",
                  <<"Missing required \"data\" query parameter in the registration link.">>, <<>>))
           ELSE IF ~isValidUUID(token)
           THEN Rejected(Failure("INVALID_TOKEN",
                  <<"Invalid token format. Token must be a valid UUID.">>, <<>>))
           ELSE ParsedLink(organization, registrationType, token, dataParam)

\* structuralChecks that rejects a path of fewer than three segments only:
\* segments after the third are ignored.
structuralChecksAtLeastThree(pathParts, dataParam) ==
  IF Len(pathParts) < 3
  THEN Rejected(Failure("INVALID_URL",
         <<"Invalid URL format. Expected: /<organization>/<registration-type>/<token>">>, <<>>))
  ELSE LET organization == pathParts[1]
           registrationType == pathParts[2]
           token == pathParts[3]
       IN  IF ~isValidOrganization(organization)
           THEN Rejected(Failure("INVALID_URL",
                  <<"Invalid organization name: ", organization>>, <<>>))
           ELSE IF ~isValidRegistrationType(registrationType)
           THEN Rejected(Failure("INVALID_URL",
                  <<"Invalid registration type: ", registrationType,
                    ". Must be one of: ", REGISTRATION_TYPES>>, <<>>))
           ELSE IF ~isValidUUID(token)
           THEN Rejected(Failure("INVALID_TOKEN",
                  <<"Invalid token format. Token must be a valid UUID.">>, <<>>))
           ELSE IF missingParam(dataParam)
           THEN Rejected(Failure("MISSING_PARAM",
                  <<"Missing required \"data\" query parameter in the registration link.">>, <<>>))
           ELSE ParsedLink(organization, registrationType, token, dataParam)

\* The structural checks of parseRegistrationUrl, up to the data parameter.
structuralChecks(pathParts, dataParam) ==
  IF Len(pathParts) # 3
  THEN Rejected(Failure("INVALID_URL",
         <<"Invalid URL format. Expected: /<organization>/<registration-type>/<token>">>, <<>>))
  ELSE LET organization == pathParts[1]
           registrationType == pathParts[2]
           token == pathParts[3]
       IN  IF ~isValidOrganization(organization)
           THEN Rejected(Failure("INVALID_URL",
                  <<"Invalid organization name: ", organization>>, <<>>))
           ELSE IF ~isValidRegistrationType(registrationType)
           THEN Rejected(Failure("INVALID_URL",
                  <<"Invalid registration type: ", registrationType,
                    ". Must be one of: ", REGISTRATION_TYPES>>, <<>>))
           ELSE IF ~isValidUUID(token)
           THEN Rejected(Failure("INVALID_TOKEN",
                  <<"Invalid token format. Token must be a valid UUID.">>, <<>>))
           ELSE IF missingParam(dataParam)
           THEN Rejected(Failure("MISSING_PARAM",
                  <<"Missing required \"data\" query parameter in the registration link.">>, <<>>))
           ELSE ParsedLink(organization, registrationType, token, dataParam)

\* new URL(url) and the structural checks.
structuralParse(url) ==
  IF ~url.valid THEN Thrown("TypeError", "Invalid URL")
  ELSE Returned(structuralChecks(pathPartsOf(url.pathname), url.data))

\* The catch block of parseRegistrationUrl.
parseCatch(c) == Failure("INVALID_URL", <<"Failed to parse URL">>, <<c.message>>)

\* The failure of the decoder wrapped in the error of parseRegistrationUrl.
returnDecodeFailureWrapped(decodeResult) ==
  Failure("INVALID_URL", <<"Failed to parse URL">>, decodeResult.error.message)

\* if (!decodeResult.success) return decodeResult
returnDecodeFailure(decodeResult) == decodeResult

\* if (!validationResult.success) return validationResult
returnValidationFailure(validationResult) == validationResult

\* return { success: true, data: { organization, registrationType, token, data } }
returnParsed(link, data) ==
  Success([organization |-> link.organization, registrationType |-> link.registrationType,
           token |-> link.token, data |-> data])

\* The part of parseRegistrationUrl after the structural checks.
decodeAndValidate(link, browser) ==
  LET d == decodeDataParam(link.dataParam, link.registrationType, browser)
  IN  IF d.threw THEN Returned(parseCatch(d))
      ELSE IF ~d.value.success THEN Returned(returnDecodeFailure(d.value))
      ELSE LET v == validateData(link.registrationType, d.value.data)
           IN  IF v.threw THEN Returned(parseCatch(v))
               ELSE IF ~v.value.success THEN Returned(returnValidationFailure(v.value))
               ELSE Returned(returnParsed(link, v.value.data))

parseRegistrationUrl(url, browser) ==
  LET c == structuralParse(url)
  IN  IF c.threw THEN Returned(parseCatch(c))
      ELSE IF ~c.value.ok THEN Returned(c.value.failure)
      ELSE decodeAndValidate(c.value, browser)

----------------------------------------------------------------------------
(* Inputs                                                                  *)

\* Lengths up to Margin beyond a length limit are tried.
Margin == 1
\* Decoded arrays have up to MaxArrayLen elements.
MaxArrayLen == 2

s_acme == <<"a","c","m","e">>
s_a == <<"a">>
s_my_org == <<"m","y",".","o","r","g">>
s_My_Org_1 == <<"M","y","_","O","r","g","-","1">>
s_invalid_type == <<"i","n","v","a","l","i","d","-","t","y","p","e">>
s_User_Invite_Confirm == <<"U","s","e","r","-","I","n","v","i","t","e","-","C","o","n","f","i","r","m">>
s_not_a_uuid == <<"n","o","t","-","a","-","u","u","i","d">>
s_extra == <<"e","x","t","r","a">>
s_email == <<"a","@","b",".","c","o","m">>
s_no_tld == <<"a","@","b">>
s_just_a_string == <<"j","u","s","t"," ","a"," ","s","t","r","i","n","g">>
s_john == <<"j","o","h","n">>
s_admin == <<"a","d","m","i","n",".","u","s","e","r">>
s_John == <<"J","o","h","n"," ","C","u","s","t","o","m","e","r">>
s_cust1 == <<"c","u","s","t","-","1">>
s_cust2 == <<"c","u","s","t","-","2">>
s_not_uuid == <<"1","2","3","4">>

\* A string of the shape 8-4-4-4-12 with digit c, version digit ver and variant digit var.
Uuid(c, ver, var) ==
  Rep(c, 8) \o <<"-">> \o Rep(c, 4) \o <<"-">> \o <<ver>> \o Rep(c, 3) \o <<"-">>
    \o <<var>> \o Rep(c, 3) \o <<"-">> \o Rep(c, 12)

uuidA == Uuid("a", "4", "8")
uuidB == Uuid("b", "4", "9")
uuidC == Uuid("c", "4", "a")
\* UUID-shaped, but not version 4 (as 81b9582e-7953-1482-... would be).
uuidV1 == Uuid("d", "1", "8")

Tokens ==
  {uuidA, Uuid("A", "4", "B"), uuidV1, Uuid("e", "4", "c"), s_not_a_uuid,
   uuidA \o <<"0">>}

Organizations ==
  {s_acme, s_a, s_my_org, s_My_Org_1, Rep("o", OrgMaxLen)}
    \cup {Rep("o", OrgMaxLen + d) : d \in 1..Margin}

TypeSegments == Range(REGISTRATION_TYPES) \cup {s_invalid_type, s_User_Invite_Confirm}

\* The pathname with the given segments.
RECURSIVE PathOf(_)
PathOf(segments) ==
  IF segments = <<>> THEN <<>> ELSE <<"/">> \o Head(segments) \o PathOf(Tail(segments))

\* A payload every flow schema accepts.
FullPayload ==
  << [k |-> k_Email, x |-> Str(s_email)], [k |-> k_UserName, x |-> Str(s_john)],
     [k |-> k_InvitedBy, x |-> Str(s_admin)], [k |-> k_Name, x |-> Str(s_John)],
     [k |-> k_Id, x |-> Str(uuidA)] >>

Slot(key, values) == {<<>>} \cup {<<[k |-> key, x |-> x]>> : x \in values}

\* Payloads that vary the identifier keys.
IdentifierPayloads ==
  { base \o a \o b \o c \o d \o e \o f :
      base \in {<<>>, SubSeq(FullPayload, 1, 4)},
      a \in Slot(k_Id, {Str(uuidA), Str(<<>>), Null, Num(<<"0">>), Num(<<"7">>)}),
      b \in Slot(k_id, {Str(uuidB)}),
      c \in Slot(k_customerId, {Str(s_cust1)}),
      d \in Slot(k_CustomerId, {Str(s_cust2)}),
      e \in Slot(k_OrgUserId, {Str(uuidC), Null}),
      f \in Slot(k_orgUserId, {Str(uuidV1)}) }

LongStrings(limit) ==
  {Rep("x", limit)} \cup {Rep("x", limit + d) : d \in 1..Margin}
    \cup {<<" ">> \o Rep("x", limit) \o <<" ">>}

\* Payloads that vary the validated fields.
FieldPayloads ==
  { a \o b \o c \o d \o e \o f :
      a \in Slot(k_Email, {Str(s_email), Str(s_no_tld)}),
      b \in Slot(k_UserName, {Str(s_john), Str(<<>>)}),
      c \in Slot(k_InvitedBy,
                 {Str(s_admin), Str(<<" ">>)} \cup {Str(l) : l \in LongStrings(InvitedByMaxLen)}),
      d \in Slot(k_Name, {Str(s_John), Str(<<>>)} \cup {Str(l) : l \in LongStrings(NameMaxLen)}),
      e \in Slot(k_FirstName, {Bool(TRUE)}),
      f \in Slot(k_Id, {Str(uuidA), Str(s_not_uuid)}) }

\* The payload of the user-signup-confirm scenario, for some UUID-shaped Id.
SignupPayloads ==
  { << [k |-> k_Email, x |-> Str(s_email)], [k |-> k_Name, x |-> Str(s_John)],
       [k |-> k_Code, x |-> Str(s_john)], [k |-> k_Id, x |-> Str(u)] >> :
      u \in {uuidA, uuidV1, Uuid("F", "4", "B")} }

Payloads == IdentifierPayloads \cup FieldPayloads \cup SignupPayloads

k_Constructor == <<"C","o","n","s","t","r","u","c","t","o","r">>
k_Extra == <<"E","x","t","r","a">>
k_extra == <<"e","x","t","r","a">>
k_field == <<"f","i","e","l","d">>
k_user == <<"u","s","e","r">>

\* Payloads that vary the keys outside the mapping table.
UnknownKeyPayloads ==
  { a \o b \o c \o d \o e \o f :
      a \in Slot(k_Constructor, {Str(s_john)}),
      b \in Slot(k_constructor, {Str(s_admin)}),
      c \in Slot(k_Extra, {Str(s_cust1), Null}),
      d \in Slot(k_extra, {Str(s_cust2)}),
      e \in Slot(k_field, {Null}),
      f \in Slot(k_user, {Obj(<<[k |-> k_Name, x |-> Str(s_John)],
                               [k |-> k_field, x |-> Null]>>)}) }

\* Payloads that vary the spellings of the mapped keys and their null values.
SpellingPayloads ==
  { a \o b \o c \o d \o e :
      a \in Slot(k_Email, {Str(s_email), Null}),
      b \in Slot(k_email, {Str(s_no_tld), Null}),
      c \in Slot(k_UserName, {Str(s_john), Null}),
      d \in Slot(k_Username, {Str(s_admin)}),
      e \in Slot(k_username, {Null}) }

Reverse(s) == [i \in 1..Len(s) |-> s[Len(s) + 1 - i]]

\* The same payloads with their keys in the opposite order.
ReversedSpellingPayloads == {Reverse(p) : p \in SpellingPayloads}

\* Decoded values that are no objects.
NonObjects ==
  {Str(s_just_a_string), Str(<<>>), Num(<<"0">>), Num(<<"7">>), Bool(TRUE), Bool(FALSE), Null}
    \cup {Arr(Rep(Str(s_email), n)) : n \in 0..MaxArrayLen}

\* JSON -> base64 -> urlencode
Encode(value) == Percent(TRUE, Base64(TRUE, JsonText(TRUE, value)))

\* The link generator: the link of the three segments with the encoded data.
generateRegistrationUrl(organization, registrationType, token, data) ==
  Url(TRUE, PathOf(<<organization, registrationType, token>>), Encode(data))

\* Data parameters that are no encoded payload.
OddParams ==
  {EmptyString,
   Percent(FALSE, EmptyBase64),
   Percent(TRUE, Base64(FALSE, JsonText(TRUE, Obj(FullPayload)))),
   Percent(TRUE, Base64(FALSE, JsonText(FALSE, Undefined))),
   Percent(TRUE, Base64(TRUE, JsonText(FALSE, Undefined)))}
    \cup {Encode(x) : x \in NonObjects}

\* Links that vary the structure.
StructureUrls ==
  { Url(TRUE, PathOf(<<o, t, k>>), d) :
      o \in Organizations, t \in TypeSegments, k \in Tokens,
      d \in {NullParam, EmptyString, Encode(Obj(FullPayload)), Encode(Str(s_just_a_string))} }
    \cup { Url(valid, PathOf(segments), d) :
             valid \in BOOLEAN,
             segments \in {<<>>, <<s_acme, T_forgot_password>>,
                           <<s_acme, T_forgot_password, uuidA, s_extra>>,
                           <<s_acme, <<>>, T_forgot_password, uuidA>>,
                           <<s_a, s_invalid_type, s_not_a_uuid>>},
             d \in {NullParam, Encode(Obj(FullPayload))} }

\* Well-formed links that vary the data parameter.
DataUrls ==
  { Url(TRUE, PathOf(<<s_acme, t, uuidA>>), d) :
      t \in Range(REGISTRATION_TYPES),
      d \in OddParams \cup {Encode(Obj(p)) : p \in Payloads} }

NoUrl == Url(FALSE, <<>>, NullParam)

Input(url, encodedData, registrationType, data) ==
  [url |-> url, encodedData |-> encodedData, registrationType |-> registrationType,
   data |-> data]

ParseInputs == {Input(u, NullParam, <<>>, Undefined) : u \in StructureUrls \cup DataUrls}

DecodeInputs ==
  { Input(NoUrl, d, t, Undefined) :
      d \in OddParams
              \cup {Encode(Obj(p)) : p \in IdentifierPayloads \cup SignupPayloads
                                           \cup UnknownKeyPayloads \cup SpellingPayloads
                                           \cup ReversedSpellingPayloads},
      t \in Range(REGISTRATION_TYPES) \cup {NoRegistrationType} }

ValidateInputs ==
  { Input(NoUrl, NullParam, t, transformDataKeys(Obj(p), t)) :
      p \in FieldPayloads \cup SignupPayloads,
      t \in Range(REGISTRATION_TYPES) }
    \cup { Input(NoUrl, NullParam, t, x) :
             t \in Range(REGISTRATION_TYPES) \cup {s_invalid_type},
             x \in NonObjects \cup {Undefined, Obj(<<>>), Obj(FullPayload)} }

----------------------------------------------------------------------------
(* One invocation of parseRegistrationUrl, decodeDataParam or validateData *)

Pending == [pending |-> TRUE]

NoLocals ==
  [link |-> Rejected(Failure("", <<>>, <<>>)), jsonData |-> Undefined,
   decodeResult |-> Pending, validationResult |-> Pending]

Init ==
  /\ entry \in {"parseRegistrationUrl", "decodeDataParam", "validateData"}
  /\ env \in IF entry = "validateData" THEN {[browser |-> FALSE]} ELSE [browser : BOOLEAN]
  /\ input \in CASE entry = "parseRegistrationUrl" -> ParseInputs
                 [] entry = "decodeDataParam" -> DecodeInputs
                 [] entry = "validateData" -> ValidateInputs
  /\ pc = "Start"
  /\ trace = <<"Start">>
  /\ locals = NoLocals
  /\ result = Pending
  /\ calls = <<>>
  /\ logs = <<>>
  /\ requests = <<>>
  /\ clock = 0

\* The registration type the stages work with.
currentType ==
  IF entry = "parseRegistrationUrl" THEN locals.link.registrationType
  ELSE input.registrationType

Goto(stage) == pc' = stage /\ trace' = Append(trace, stage)

\* parseRegistrationUrl: new URL, the path and the structural checks.
StructuralParse ==
  /\ entry = "parseRegistrationUrl"
  /\ pc = "Start"
  /\ LET c == structuralParse(input.url)
     IN  IF c.threw
         THEN /\ result' = Returned(parseCatch(c))
              /\ Goto("Failed")
              /\ UNCHANGED locals
         ELSE IF ~c.value.ok
         THEN /\ result' = Returned(c.value.failure)
              /\ Goto("Failed")
              /\ UNCHANGED locals
         ELSE /\ locals' = [locals EXCEPT !.link = c.value]
              /\ Goto("Parsed")
              /\ UNCHANGED result
  /\ UNCHANGED <<entry, env, input, serverVars>>

\* Decode without the return on failure: the pipeline goes on to the
\* normalizer with the value it has.
DecodeContinues ==
  /\ IF entry = "parseRegistrationUrl" THEN pc = "Parsed"
     ELSE entry = "decodeDataParam" /\ pc = "Start"
  /\ LET encodedData == IF entry = "parseRegistrationUrl" THEN locals.link.dataParam
                        ELSE input.encodedData
         c == decodeSteps(encodedData, env.browser)
     IN  locals' = [locals EXCEPT !.jsonData = IF c.threw THEN Undefined ELSE c.value]
  /\ Goto("Decoded")
  /\ UNCHANGED <<entry, env, input, result, serverVars>>

\* decodeDataParam: percent-decode, base64-decode, JSON.parse.
Decode ==
  /\ IF entry = "parseRegistrationUrl" THEN pc = "Parsed"
     ELSE entry = "decodeDataParam" /\ pc = "Start"
  /\ LET encodedData == IF entry = "parseRegistrationUrl" THEN locals.link.dataParam
                        ELSE input.encodedData
         c == decodeSteps(encodedData, env.browser)
     IN  IF c.threw
         THEN /\ locals' = [locals EXCEPT !.decodeResult = decodeCatch(c)]
              /\ result' = IF entry = "parseRegistrationUrl"
                           THEN Returned(returnDecodeFailure(decodeCatch(c)))
                           ELSE Returned(decodeCatch(c))
              /\ Goto("Failed")
         ELSE /\ locals' = [locals EXCEPT !.jsonData = c.value]
              /\ Goto("Decoded")
              /\ UNCHANGED result
  /\ UNCHANGED <<entry, env, input, serverVars>>

\* decodeDataParam: transformDataKeys and the return of the decoded data.
Normalize ==
  /\ pc = "Decoded"
  /\ locals' = [locals EXCEPT !.decodeResult = decodeReturn(locals.jsonData, currentType)]
  /\ result' = IF entry = "decodeDataParam" THEN Returned(locals'.decodeResult) ELSE result
  /\ Goto("Normalized")
  /\ UNCHANGED <<entry, env, input, serverVars>>

\* validateData, and the return of parseRegistrationUrl.
Validate ==
  /\ IF entry = "parseRegistrationUrl" THEN pc = "Normalized"
     ELSE entry = "validateData" /\ pc = "Start"
  /\ LET data == IF entry = "parseRegistrationUrl" THEN locals.decodeResult.data
                 ELSE input.data
         v == validateData(currentType, data)
         r == IF entry = "validateData" THEN v
              ELSE IF v.threw THEN Returned(parseCatch(v))
              ELSE IF ~v.value.success THEN Returned(returnValidationFailure(v.value))
              ELSE Returned(returnParsed(locals.link, v.value.data))
     IN  /\ locals' = [locals EXCEPT !.validationResult = IF v.threw THEN Pending ELSE v.value]
         /\ result' = r
         /\ Goto(IF ~r.threw /\ r.value.success THEN "Validated" ELSE "Failed")
  /\ UNCHANGED <<entry, env, input, serverVars>>

Next == StructuralParse \/ Decode \/ Normalize \/ Validate

Spec == Init /\ [][Next]_vars

----------------------------------------------------------------------------
(* The stepwise invocation computes the functions.                         *)

Terminal == result # Pending

CallResult ==
  CASE entry = "parseRegistrationUrl" -> parseRegistrationUrl(input.url, env.browser)
    [] entry = "decodeDataParam" ->
         decodeDataParam(input.encodedData, input.registrationType, env.browser)
    [] entry = "validateData" -> validateData(input.registrationType, input.data)

StepsComputeCall == Terminal => result = CallResult

----------------------------------------------------------------------------
(* Concurrent invocations of parseRegistrationUrl and decodeDataParam.     *)
(* Every invocation has its own frame (the const and let bindings of the   *)
(* functions); the module has no variable that is assigned after load.     *)

\* The number of invocations in flight.
NumCalls == 2

NoInput == Input(NoUrl, NullParam, <<>>, Undefined)

\* An invocation: its arguments, its position, its frame and its result.
Call(name, browser, in) ==
  [entry |-> name, browser |-> browser, input |-> in, pc |-> "Start",
   locals |-> NoLocals, result |-> Pending]

ConcurrentUrls ==
  { generateRegistrationUrl(s_acme, t, k, Obj(p)) :
      t \in {T_user_signup_confirm, T_customer_email_verification},
      k \in {uuidA, s_not_a_uuid},
      p \in {FullPayload, SubSeq(FullPayload, 1, 4), <<>>} }
    \cup {Url(TRUE, PathOf(<<s_acme, T_forgot_password, uuidA>>), d) :
            d \in {NullParam, Percent(FALSE, EmptyBase64)}}

ConcurrentCalls ==
  {Call("parseRegistrationUrl", FALSE, Input(u, NullParam, <<>>, Undefined)) :
     u \in ConcurrentUrls}
    \cup {Call("decodeDataParam", FALSE, Input(NoUrl, Encode(Obj(p)), t, Undefined)) :
            p \in {FullPayload, <<[k |-> k_Id, x |-> Str(uuidB)]>>},
            t \in {T_user_invite_confirm, NoRegistrationType}}

ConcurrentInit ==
  /\ calls \in [1..NumCalls -> ConcurrentCalls]
  /\ entry = "none"
  /\ env = [browser |-> FALSE]
  /\ input = NoInput
  /\ pc = "Idle"
  /\ trace = <<>>
  /\ locals = NoLocals
  /\ result = Pending
  /\ logs = <<>>
  /\ requests = <<>>
  /\ clock = 0

\* The invocation has a step to take.
callRunning(c) == c.result = Pending

callType(c) ==
  IF c.entry = "parseRegistrationUrl" THEN c.locals.link.registrationType
  ELSE c.input.registrationType

\* The stage StructuralParse of an invocation.
callStructuralParse(c) ==
  LET s == structuralParse(c.input.url)
  IN  IF s.threw THEN [c EXCEPT !.result = Returned(parseCatch(s)), !.pc = "Failed"]
      ELSE IF ~s.value.ok
      THEN [c EXCEPT !.result = Returned(s.value.failure), !.pc = "Failed"]
      ELSE [c EXCEPT !.locals.link = s.value, !.pc = "Parsed"]

\* The stage Decode of an invocation.
callDecode(c) ==
  LET encodedData == IF c.entry = "parseRegistrationUrl" THEN c.locals.link.dataParam
                     ELSE c.input.encodedData
      d == decodeSteps(encodedData, c.browser)
  IN  IF d.threw
      THEN [c EXCEPT !.locals.decodeResult = decodeCatch(d),
                     !.result = Returned(returnDecodeFailure(decodeCatch(d))),
                     !.pc = "Failed"]
      ELSE [c EXCEPT !.locals.jsonData = d.value, !.pc = "Decoded"]

\* The stage Normalize of an invocation.
callNormalize(c) ==
  LET r == decodeReturn(c.locals.jsonData, callType(c))
  IN  [c EXCEPT !.locals.decodeResult = r,
                !.result = IF c.entry = "decodeDataParam" THEN Returned(r) ELSE c.result,
                !.pc = "Normalized"]

\* The stage Validate of an invocation of parseRegistrationUrl.
callValidate(c) ==
  LET v == validateData(callType(c), c.locals.decodeResult.data)
      r == IF v.threw THEN Returned(parseCatch(v))
           ELSE IF ~v.value.success THEN Returned(returnValidationFailure(v.value))
           ELSE Returned(returnParsed(c.locals.link, v.value.data))
  IN  [c EXCEPT !.locals.validationResult = IF v.threw THEN Pending ELSE v.value,
                !.result = r,
                !.pc = IF r.value.success THEN "Validated" ELSE "Failed"]

\* The next stage of an invocation.
stepCall(c) ==
  CASE c.pc = "Start" /\ c.entry = "parseRegistrationUrl" -> callStructuralParse(c)
    [] c.pc = "Start" /\ c.entry = "decodeDataParam" -> callDecode(c)
    [] c.pc = "Parsed" -> callDecode(c)
    [] c.pc = "Decoded" -> callNormalize(c)
    [] c.pc = "Normalized" -> callValidate(c)

\* CallStep with one frame for all invocations, as if the local bindings
\* were variables of the module.
CallStepSharedFrame(i) ==
  /\ callRunning(calls[i])
  /\ calls' = [j \in DOMAIN calls |->
                 IF j = i THEN stepCall(calls[i])
                 ELSE [calls[j] EXCEPT !.locals = stepCall(calls[i]).locals]]
  /\ UNCHANGED <<entry, env, input, pc, trace, locals, result, logs, requests, clock>>

\* Invocation i takes its next stage.
CallStep(i) ==
  /\ callRunning(calls[i])
  /\ calls' = [calls EXCEPT ![i] = stepCall(calls[i])]
  /\ UNCHANGED <<entry, env, input, pc, trace, locals, result, logs, requests, clock>>

ConcurrentNext == \E i \in 1..NumCalls : CallStep(i)

SpecConcurrent == ConcurrentInit /\ [][ConcurrentNext]_vars

\* The result of the invocation when it is the only one.
resultAlone(c) ==
  IF c.entry = "parseRegistrationUrl" THEN parseRegistrationUrl(c.input.url, c.browser)
  ELSE decodeDataParam(c.input.encodedData, c.input.registrationType, c.browser)

----------------------------------------------------------------------------
(* lib/api-logger: the in-memory store of API calls                        *)

MAX_LOGS == 100

\* The number of addLog calls tried.
MaxAdds == 103

\* addLog without the splice.
addLogUnbounded(store, log) == <<log>> \o store

\* logs.unshift(log); if (logs.length > MAX_LOGS) logs.splice(MAX_LOGS)
addLog(store, log) ==
  LET unshifted == <<log>> \o store
  IN  IF Len(unshifted) > MAX_LOGS THEN SubSeq(unshifted, 1, MAX_LOGS) ELSE unshifted

\* logs.splice(0, logs.length)
clearLogs(store) == SubSeq(store, Len(store) + 1, Len(store))

\* The pipeline and the proxy are idle.
ServerIdle ==
  /\ entry = "none"
  /\ env = [browser |-> FALSE]
  /\ input = NoInput
  /\ pc = "Idle"
  /\ trace = <<>>
  /\ locals = NoLocals
  /\ result = Pending
  /\ calls = <<>>
  /\ requests = <<>>

LoggerInit ==
  /\ ServerIdle
  /\ logs = <<>>
  /\ clock = 0

\* A caller adds the log of its API call; the entries are told apart by the
\* time of the call.
AddLog ==
  /\ clock < MaxAdds
  /\ clock' = clock + 1
  /\ logs' = addLog(logs, [id |-> clock + 1, timestamp |-> clock + 1])
  /\ UNCHANGED <<entry, env, input, pc, trace, locals, result, calls, requests>>

ClearLogs ==
  /\ logs' = clearLogs(logs)
  /\ UNCHANGED <<entry, env, input, pc, trace, locals, result, calls, requests, clock>>

LoggerNext == AddLog \/ ClearLogs

SpecLogger == LoggerInit /\ [][LoggerNext]_vars

----------------------------------------------------------------------------
(* app/api/verify/user-invite: the request schemas                         *)

k_org == <<"o","r","g">>
k_token == <<"t","o","k","e","n">>
k_regType == <<"r","e","g","T","y","p","e">>
k_userName == <<"u","s","e","r","N","a","m","e">>
k_status == <<"s","t","a","t","u","s">>
k_description == <<"d","e","s","c","r","i","p","t","i","o","n">>
k_message == <<"m","e","s","s","a","g","e">>

\* The keys of userSignupConfirmSchema and userInviteConfirmSchema, in the
\* order of the shape of baseRequestSchema.extend({...}).
requestKeys ==
  <<k_org, k_token, k_regType, k_email, k_userName, k_orgUserId, k_invitedBy,
    k_password, k_name, k_lastName>>

lengthBetween(x, min, max) == x.t = "string" /\ Len(x.v) >= min /\ Len(x.v) <= max

\* .regex(/[A-Z]/) .regex(/[a-z]/) .regex(/[0-9]/) .regex(/[!@#]/)
hasOneOf(s, S) == \E i \in DOMAIN s : s[i] \in S

\* The field schemas of baseRequestSchema.
baseAccepts(key, x) ==
  CASE key = k_org ->
         lengthBetween(x, 2, 50) /\ x.v # <<>> /\ AllIn(x.v, Letter \cup Digit \cup {"_", "-"})
    [] key = k_token -> x.t = "string" /\ Len(x.v) >= 1
    [] key = k_regType ->
         x \in {Str(T_user_signup_confirm), Str(T_user_invite_confirm)}
    [] key = k_email -> x.t = "string" /\ isEmail(x.v)
    [] key = k_userName ->
         lengthBetween(x, 3, 50) /\ AllIn(x.v, Letter \cup Digit \cup {".", "_", "-"})
    [] key = k_orgUserId -> x.t = "string" /\ isUuidShaped(x.v)
    [] key = k_invitedBy -> x.t = "undefined" \/ lengthBetween(x, 0, 100)
    [] OTHER -> TRUE

\* The field schemas of userSignupConfirmSchema.
signupAccepts(key, x) ==
  CASE key = k_password ->
         /\ lengthBetween(x, 7, 15)
         /\ hasOneOf(x.v, Upper)
         /\ hasOneOf(x.v, Lower)
         /\ hasOneOf(x.v, Digit)
         /\ hasOneOf(x.v, {"!", "@", "#"})
    [] key = k_name -> lengthBetween(x, 1, 100)
    [] key = k_lastName -> lengthBetween(x, 1, 100)
    [] OTHER -> baseAccepts(key, x)

\* The field schemas of userInviteConfirmSchema.
inviteAccepts(key, x) ==
  CASE key = k_invitedBy -> x.t = "string" /\ lengthBetween(Str(trim(x.v)), 1, 100)
    [] key \in {k_password, k_name, k_lastName} -> x.t \in {"undefined", "string"}
    [] OTHER -> baseAccepts(key, x)

\* body.regType === 'user-signup-confirm' ? userSignupConfirmSchema : userInviteConfirmSchema
isSignupBody(body) ==
  body.t = "object" /\ Get(body.v, k_regType) = Str(T_user_signup_confirm)

fieldAccepted(body, key) ==
  IF isSignupBody(body) THEN signupAccepts(key, Get(body.v, key))
  ELSE inviteAccepts(key, Get(body.v, key))

\* The parsed value of a field: invitedBy of userInviteConfirmSchema is trimmed.
parsedField(body, key) ==
  LET x == Get(body.v, key)
  IN  IF key = k_invitedBy /\ ~isSignupBody(body) /\ x.t = "string" THEN Str(trim(x.v))
      ELSE x

\* schema.safeParse(body): the validated data (the declared keys of the
\* body, in schema order) or the paths of the failing fields.
safeParse(body) ==
  IF body.t # "object"
  THEN [success |-> FALSE, data |-> Undefined, errors |-> << <<>> >>]
  ELSE LET failing == SelectSeq(requestKeys, LAMBDA key : ~fieldAccepted(body, key))
           present == SelectSeq(requestKeys, LAMBDA key : Has(body.v, key))
       IN  IF failing # <<>>
           THEN [success |-> FALSE, data |-> Undefined,
                 errors |-> [i \in DOMAIN failing |-> <<failing[i]>>]]
           ELSE [success |-> TRUE,
                 data |-> Obj([i \in DOMAIN present |->
                                 [k |-> present[i], x |-> parsedField(body, present[i])]]),
                 errors |-> <<>>]

----------------------------------------------------------------------------
(* app/api/verify/user-invite: the POST handler                            *)

\* String.prototype.toUpperCase
toUpperCase(str) ==
  [i \in DOMAIN str |->
     IF str[i] \in Lower THEN UpperSeq[CHOOSE n \in DOMAIN LowerSeq : LowerSeq[n] = str[i]]
     ELSE str[i]]

\* maskPassword that returns the password.
maskPasswordPlain(password) == IF ~Truthy(password) THEN Str(<<>>) ELSE password

\* if (!password) return ''; return '*'.repeat(password.length)
maskPassword(password) ==
  IF ~Truthy(password) THEN Str(<<>>) ELSE Str(Rep("*", Len(password.v)))

\* NextResponse.json(body, { status })
JsonResponse(status, body) == [threw |-> FALSE, status |-> status, body |-> body]

\* The handler's promise rejects: an error thrown inside its catch block.
HandlerRejected(name) == [threw |-> TRUE, status |-> 0, body |-> name]

\* The reply of the external API as axios returns it.
Reply(status, statusText, data) == [status |-> status, statusText |-> statusText, data |-> data]

\* response.data?.key
replyField(data, key) == IF data.t = "object" THEN Get(data.v, key) ELSE Undefined

\* An entry of the API call log.
ApiLog(id, body, status, responseBody) ==
  [id |-> id, body |-> body, response |-> [status |-> status, body |-> responseBody]]

\* The entry of the success path: body: { ...validatedData, password: maskPassword(...) }
replyLog(request, reply) ==
  ApiLog(request.id,
         Obj(Put(request.validated.v, k_password,
                 maskPassword(Get(request.validated.v, k_password)))),
         reply.status, reply.data)

\* The entries of the catch block: body: requestData.password
\*   ? { ...requestData, password: maskPassword(requestData.password) } : requestData
catchLog(request, status, message) ==
  ApiLog(request.id,
         IF Truthy(Get(request.requestData.v, k_password))
         THEN Obj(Put(request.requestData.v, k_password,
                      maskPassword(Get(request.requestData.v, k_password))))
         ELSE request.requestData,
         status, Obj(<<[k |-> <<"e","r","r","o","r">>, x |-> Str(<<message>>)]>>))

\* The response to the reply of the external API (lines 349-402).
respondToReply(reply) ==
  LET description == replyField(reply.data, k_description)
      message == replyField(reply.data, k_message)
  IN  IF reply.status >= 200 /\ reply.status < 300
      THEN LET responseStatus == replyField(reply.data, k_status)
           IN  IF Truthy(responseStatus) /\ responseStatus.t # "string"
               THEN Thrown("TypeError", "responseStatus.toUpperCase is not a function")
               ELSE IF Truthy(responseStatus) /\ toUpperCase(responseStatus.v) = <<"O", "K">>
               THEN Returned(JsonResponse(200, Success(reply.data)))
               ELSE Returned(JsonResponse(400,
                      Failure("INVALID_STATUS",
                              Or(Or(description, message),
                                 Str(<<"External API returned invalid status">>)),
                              reply.data)))
      ELSE Returned(JsonResponse(reply.status,
             Failure(<<"HTTP_", reply.status>>,
                     Or(Or(Or(description, message), Str(<<reply.statusText>>)),
                        Str(<<"External API error">>)),
                     reply.data)))

\* The catch block on an error that is no AxiosError and no SyntaxError.
catchUnknown(store, request, error) ==
  [logs |-> addLog(store, catchLog(request, 500, error.message)),
   response |-> JsonResponse(500,
                  Failure("INTERNAL_ERROR",
                          "An unexpected error occurred. Please try again later.",
                          error.message))]

\* The catch block on an AxiosError without response.
catchNetworkError(store, request) ==
  [logs |-> addLog(store, catchLog(request, 503, "Network Error")),
   response |-> JsonResponse(503,
                  Failure("EXTERNAL_API_UNREACHABLE",
                          "Unable to reach external API. Please try again later.",
                          "Network Error"))]

\* The handler after axios.post has returned the reply: addLog, then the
\* response; an error thrown by the response check is caught.
handleReply(store, request, reply) ==
  LET logged == addLog(store, replyLog(request, reply))
      c == respondToReply(reply)
  IN  IF c.threw THEN catchUnknown(logged, request, c)
      ELSE [logs |-> logged, response |-> c.value]

\* The handler up to axios.post: request.json(), the schema, the return on
\* invalid data; the catch block on the errors thrown here.
receive(request) ==
  LET parsed == JSONparse(request.raw)
  IN  IF parsed.threw
      THEN [request EXCEPT !.pc = "Done",
              !.response = JsonResponse(400,
                 Failure("INVALID_JSON", "Invalid JSON in request body", <<>>))]
      ELSE IF parsed.value.t = "null"
      THEN [request EXCEPT !.pc = "Done", !.requestData = parsed.value,
              !.response = HandlerRejected("TypeError")]
      ELSE LET validation == safeParse(parsed.value)
           IN  IF ~validation.success
               THEN [request EXCEPT !.pc = "Done", !.requestData = parsed.value,
                       !.response = JsonResponse(400,
                          Failure("VALIDATION_ERROR", "Invalid request data",
                                  validation.errors))]
               ELSE [request EXCEPT !.pc = "Calling", !.requestData = parsed.value,
                       !.validated = validation.data]

----------------------------------------------------------------------------
(* app/api/verify/user-invite: requests served by one server process.      *)
(* The steps of a request are atomic between its awaits: request.json()    *)
(* and axios.post.  The log ids of generateLogId are taken to be distinct. *)
(* The external API answers with a status below 600.                       *)

NumRequests == 2

s_Passw0rd == <<"P","a","s","s","w","0","r","d","!">>
s_secret == <<"s","e","c","r","e","t">>
s_short == <<"a","b","c">>
s_tok == <<"t","o","k","e","n","-","1">>
s_OK == <<"O","K">>
s_ok == <<"o","k">>
s_Ok == <<"O","k">>
s_FAILED == <<"F","A","I","L","E","D">>
s_expired == <<"T","o","k","e","n"," ","e","x","p","i","r","e","d">>
s_Not_Found == <<"N","o","t"," ","F","o","u","n","d">>

Prop(key, x) == [k |-> key, x |-> x]

BaseFields(regType) ==
  <<Prop(k_org, Str(s_acme)), Prop(k_token, Str(s_tok)), Prop(k_regType, Str(regType)),
    Prop(k_email, Str(s_email)), Prop(k_userName, Str(s_john)),
    Prop(k_orgUserId, Str(uuidA))>>

SignupBody(password) ==
  Obj(BaseFields(T_user_signup_confirm)
      \o <<Prop(k_password, Str(password)), Prop(k_name, Str(s_john)),
           Prop(k_lastName, Str(s_admin))>>)

InviteBody(extra) ==
  Obj(BaseFields(T_user_invite_confirm) \o <<Prop(k_invitedBy, Str(s_admin))>> \o extra)

\* The bodies of the requests: the text request.json() parses.
RequestBodies ==
  {JsonText(TRUE, SignupBody(s_Passw0rd)),
   JsonText(TRUE, SignupBody(s_short)),
   JsonText(TRUE, InviteBody(<<>>)),
   JsonText(TRUE, InviteBody(<<Prop(k_password, Str(s_secret))>>)),
   JsonText(TRUE, InviteBody(<<Prop(k_password, Str(<<>>)), Prop(k_code, Str(s_extra))>>)),
   JsonText(TRUE, Null),
   JsonText(FALSE, Undefined)}

\* The replies of the external API.
ExternalReplies ==
  {Reply(200, "OK", Obj(<<Prop(k_status, Str(s_OK))>>)),
   Reply(200, "OK", Obj(<<Prop(k_status, Str(s_ok))>>)),
   Reply(201, "Created", Obj(<<Prop(k_status, Str(s_Ok))>>)),
   Reply(200, "OK", Obj(<<Prop(k_status, Str(s_FAILED)),
                          Prop(k_description, Str(s_expired))>>)),
   Reply(200, "OK", Obj(<<>>)),
   Reply(200, "OK", Obj(<<Prop(k_status, Num(<<"1">>))>>)),
   Reply(204, "No Content", Str(<<>>)),
   Reply(400, "Bad Request", Obj(<<Prop(k_message, Str(s_expired))>>)),
   Reply(404, "Not Found", Str(s_Not_Found)),
   Reply(500, "Internal Server Error", Null)}

NoResponse == [threw |-> FALSE, status |-> 0, body |-> "none"]

\* No reply of the external API: none yet, or the call failed.
NoReply == Reply(0, "none", Undefined)
NetworkFailure == Reply(0, "Network Error", Undefined)

\* The handler's variables at its start: requestData = {}, logId.
NewRequest(id, raw) ==
  [id |-> id, raw |-> raw, pc |-> "Start", requestData |-> Obj(<<>>),
   validated |-> Undefined, reply |-> NoReply, response |-> NoResponse]

ProxyInit ==
  /\ entry = "none"
  /\ env = [browser |-> FALSE]
  /\ input = NoInput
  /\ pc = "Idle"
  /\ trace = <<>>
  /\ locals = NoLocals
  /\ result = Pending
  /\ calls = <<>>
  /\ clock = 0
  /\ logs = <<>>
  /\ \E raws \in [1..NumRequests -> RequestBodies] :
       requests = [r \in 1..NumRequests |-> NewRequest(r, raws[r])]

\* POST up to the call of the external API.
ReceiveRequest(r) ==
  /\ requests[r].pc = "Start"
  /\ requests' = [requests EXCEPT ![r] = receive(requests[r])]
  /\ UNCHANGED <<entry, env, input, pc, trace, locals, result, calls, logs, clock>>

\* axios.post returns the reply; POST runs to its end.
ExternalReply(r) ==
  /\ requests[r].pc = "Calling"
  /\ \E reply \in ExternalReplies :
       LET done == handleReply(logs, requests[r], reply)
       IN  /\ logs' = done.logs
           /\ requests' = [requests EXCEPT ![r].pc = "Done", ![r].reply = reply,
                                           ![r].response = done.response]
  /\ UNCHANGED <<entry, env, input, pc, trace, locals, result, calls, clock>>

\* axios.post throws an AxiosError without response; POST runs to its end.
NetworkError(r) ==
  /\ requests[r].pc = "Calling"
  /\ LET done == catchNetworkError(logs, requests[r])
     IN  /\ logs' = done.logs
         /\ requests' = [requests EXCEPT ![r].pc = "Done", ![r].reply = NetworkFailure,
                                         ![r].response = done.response]
  /\ UNCHANGED <<entry, env, input, pc, trace, locals, result, calls, clock>>

ProxyNext ==
  \E r \in 1..NumRequests : ReceiveRequest(r) \/ ExternalReply(r) \/ NetworkError(r)

SpecProxy == ProxyInit /\ [][ProxyNext]_vars

----------------------------------------------------------------------------
(* Vocabulary of the properties                                            *)

IsParse == entry = "parseRegistrationUrl"

\* The link has three path segments (and is accepted by new URL).
ThreeSegments == IsParse /\ input.url.valid /\ Len(pathPartsOf(input.url.pathname)) = 3

Segment(i) == pathPartsOf(input.url.pathname)[i]

\* The decoder has produced a JSON value in this invocation.
HasDecoded == \E i \in DOMAIN trace : trace[i] = "Decoded"

\* The normalizer has run in this invocation.
HasNormalized == \E i \in DOMAIN trace : trace[i] = "Normalized"

\* The entries of the decoded payload and of the normalized payload.
decodedEntries == locals.jsonData.v
normalizedEntries == locals.decodeResult.data.v

NormalizedObject == HasNormalized /\ locals.jsonData.t = "object"

ExplicitIdentifierKeys == {k_customerId, k_CustomerId, k_OrgUserId, k_orgUserId}

\* A property is populated when it is set to something other than undefined.
Populated(e, key) == Has(e, key) /\ Get(e, key).t # "undefined"

ErrorCode == result.value.error.code

----------------------------------------------------------------------------
(* C1 *)

\* C1: for a link with three path segments the structural checks run in the
\* order organization, flow type, token, data parameter, and the error
\* reported is the one of the earliest failing check: INVALID_URL for the
\* organization or the flow type, INVALID_TOKEN for the token, MISSING_PARAM
\* for the data parameter.
C1_FirstFailingCheckReported ==
  (ThreeSegments /\ Terminal) =>
    LET orgOk == isValidOrganization(Segment(1))
        typeOk == isValidRegistrationType(Segment(2))
        tokenOk == isValidUUID(Segment(3))
        dataOk == ~missingParam(input.url.data)
        error == result.value.error
    IN  /\ ~orgOk =>
             /\ ~result.value.success
             /\ error.code = "INVALID_URL"
             /\ error.message[1] = "Invalid organization name: "
        /\ (orgOk /\ ~typeOk) =>
             /\ ~result.value.success
             /\ error.code = "INVALID_URL"
             /\ error.message[1] = "Invalid registration type: "
        /\ (orgOk /\ typeOk /\ ~tokenOk) =>
             /\ ~result.value.success
             /\ error.code = "INVALID_TOKEN"
        /\ (orgOk /\ typeOk /\ tokenOk /\ ~dataOk) =>
             /\ ~result.value.success
             /\ error.code = "MISSING_PARAM"
        /\ (orgOk /\ typeOk /\ tokenOk /\ dataOk) =>
             (result.value.success \/ error.code \notin {"INVALID_TOKEN", "MISSING_PARAM"})

\* A link whose token is invalid and whose data parameter is missing has been
\* rejected with INVALID_TOKEN.
C1_Witness ==
  /\ ThreeSegments
  /\ Terminal
  /\ isValidOrganization(Segment(1))
  /\ isValidRegistrationType(Segment(2))
  /\ ~isValidUUID(Segment(3))
  /\ missingParam(input.url.data)
  /\ ErrorCode = "INVALID_TOKEN"

----------------------------------------------------------------------------
(* C2 *)

\* C2: a payload that contains Id = X (or id = X) and no other identifier
\* field normalizes under customer-email-verification to customerId = X and
\* no orgUserId, and under user-signup-confirm or user-invite-confirm to
\* orgUserId = X and no customerId.
C2_ContextAwareIdMapping ==
  (/\ NormalizedObject
   /\ Has(decodedEntries, k_Id) # Has(decodedEntries, k_id)
   /\ Keys(decodedEntries) \cap ExplicitIdentifierKeys = {}) =>
    LET X == IF Has(decodedEntries, k_Id) THEN Get(decodedEntries, k_Id)
             ELSE Get(decodedEntries, k_id)
    IN  /\ currentType = T_customer_email_verification =>
             /\ Get(normalizedEntries, k_customerId) = X
             /\ ~Has(normalizedEntries, k_orgUserId)
        /\ currentType \in {T_user_signup_confirm, T_user_invite_confirm} =>
             /\ Get(normalizedEntries, k_orgUserId) = X
             /\ ~Has(normalizedEntries, k_customerId)

----------------------------------------------------------------------------
(* C3 *)

\* C3: when the payload has Id or id and an identifier is derived from it,
\* the derived value is in the normalized payload unchanged: no other input
\* key (customerId, CustomerId, OrgUserId, orgUserId or an unknown key)
\* overwrites it.
C3_IdDerivedValueKept ==
  (/\ NormalizedObject
   /\ Has(decodedEntries, k_Id) \/ Has(decodedEntries, k_id)
   /\ Truthy(idValueOf(decodedEntries))) =>
    Get(normalizedEntries, idTarget(currentType)) = idValueOf(decodedEntries)

----------------------------------------------------------------------------
(* C4 *)

\* C4 as stated: every normalized payload has exactly one of customerId and
\* orgUserId populated.
C4_ExactlyOneIdentifierPopulated ==
  (NormalizedObject /\ isValidRegistrationType(currentType)) =>
    (Populated(normalizedEntries, k_customerId) # Populated(normalizedEntries, k_orgUserId))

\* C4, amended: a payload with Id or id and no explicit identifier key
\* normalizes to a payload with exactly one of the keys customerId and
\* orgUserId, chosen by the flow type (orgUserId for user-signup-confirm and
\* user-invite-confirm, customerId otherwise), so that one Id is never written
\* to both; a payload with neither Id, id nor an explicit identifier key
\* normalizes to a payload with neither key.
C4_IdWrittenToOneKey ==
  (NormalizedObject /\ Keys(decodedEntries) \cap ExplicitIdentifierKeys = {}) =>
    LET hasCustomerId == Has(normalizedEntries, k_customerId)
        hasOrgUserId == Has(normalizedEntries, k_orgUserId)
        userFlow == currentType \in {T_user_signup_confirm, T_user_invite_confirm}
    IN  IF Has(decodedEntries, k_Id) \/ Has(decodedEntries, k_id)
        THEN /\ hasOrgUserId = userFlow
             /\ hasCustomerId = ~userFlow
        ELSE ~hasCustomerId /\ ~hasOrgUserId

\* A payload whose only identifier is Id has been normalized in a user flow.
C4_Witness ==
  /\ NormalizedObject
  /\ Has(decodedEntries, k_Id)
  /\ Keys(decodedEntries) \cap ExplicitIdentifierKeys = {}
  /\ currentType = T_user_invite_confirm
  /\ Populated(normalizedEntries, k_orgUserId)
  /\ ~Has(normalizedEntries, k_customerId)

----------------------------------------------------------------------------
(* C5 *)

\* C5: a data parameter whose decoded JSON value is no object is rejected
\* with INVALID_DATA, and the value reaches neither the normalizer nor the
\* schema validation.
C5_NonObjectRejected ==
  (entry # "validateData" /\ HasDecoded /\ locals.jsonData.t # "object") =>
    /\ ~HasNormalized
    /\ Terminal => (~result.value.success /\ ErrorCode = "INVALID_DATA")

----------------------------------------------------------------------------
(* C6 *)

Chain == <<"Start", "Parsed", "Decoded", "Normalized", "Validated">>

HasParsed == \E i \in DOMAIN trace : trace[i] = "Parsed"

\* The stages passed so far are the first stages of the chain, in order,
\* possibly followed by Failed.
ChainShaped(t) ==
  \/ /\ Len(t) <= Len(Chain)
     /\ t = SubSeq(Chain, 1, Len(t))
  \/ /\ Len(t) >= 2
     /\ Len(t) <= Len(Chain)
     /\ t = SubSeq(Chain, 1, Len(t) - 1) \o <<"Failed">>

\* C6: an invocation of the pipeline passes the stages Start, Parsed, Decoded,
\* Normalized, Validated in this order, without skipping one, or leaves the
\* chain for Failed; a stage is reached only when every earlier stage
\* succeeded on the input; Validated and Failed are terminal and are the only
\* stages with a result; a success result is given only after all four
\* stages succeeded.
C6_OneShotPipeline ==
  IsParse =>
    /\ ChainShaped(trace)
    /\ pc = trace[Len(trace)]
    /\ Terminal <=> pc \in {"Validated", "Failed"}
    /\ HasParsed =>
         /\ ~structuralParse(input.url).threw
         /\ structuralParse(input.url).value.ok
         /\ locals.link = structuralParse(input.url).value
    /\ HasDecoded =>
         /\ ~decodeSteps(locals.link.dataParam, env.browser).threw
         /\ locals.jsonData = decodeSteps(locals.link.dataParam, env.browser).value
    /\ HasNormalized =>
         locals.decodeResult =
           Success(transformDataKeys(locals.jsonData, locals.link.registrationType))
    /\ pc = "Validated" =>
         /\ validateData(locals.link.registrationType, locals.decodeResult.data).value.success
         /\ result.value.success
    /\ pc = "Failed" => ~result.value.success
    /\ (Terminal /\ result.value.success) => trace = Chain

\* An invocation of the pipeline has passed every stage.
C6_Witness == IsParse /\ pc = "Validated" /\ trace = Chain /\ result.value.success

----------------------------------------------------------------------------
(* C7 *)

\* C7: parseRegistrationUrl, decodeDataParam and validateData return and do
\* not throw; the result is {success: true, data} or {success: false, error}
\* with error.code one of the six codes, and a failure carries no data.
C7_ErrorsAreValues ==
  Terminal =>
    /\ ~result.threw
    /\ IF result.value.success
       THEN DOMAIN result.value = {"success", "data"}
       ELSE /\ DOMAIN result.value = {"success", "error"}
            /\ result.value.error.code \in ErrorCodes

\* validateData has caught the error of the schema and returned it.
C7_Witness ==
  /\ entry = "validateData"
  /\ Terminal
  /\ ~result.threw
  /\ ~result.value.success
  /\ ErrorCode = "VALIDATION_ERROR"

----------------------------------------------------------------------------
(* C8 *)

\* C8: when the decoder or the schema validator fails inside
\* parseRegistrationUrl, the result of parseRegistrationUrl is the result of
\* that stage, with the same code, message and details.
C8_StageErrorUnchanged ==
  (IsParse /\ pc = "Failed" /\ HasParsed) =>
    IF ~HasDecoded
    THEN result.value =
           decodeDataParam(locals.link.dataParam, locals.link.registrationType,
                           env.browser).value
    ELSE result.value =
           validateData(locals.link.registrationType, locals.decodeResult.data).value

\* The decoder has failed inside parseRegistrationUrl.
C8_Witness ==
  /\ IsParse
  /\ pc = "Failed"
  /\ HasParsed
  /\ ~HasDecoded
  /\ ErrorCode = "DECODE_ERROR"
  /\ result.value.error.details # <<>>

----------------------------------------------------------------------------
(* C9 *)

\* The payload a well-formed data parameter encodes.
encodedPayload(dataParam) == dataParam.inner.inner.inner

WellEncoded(dataParam) ==
  /\ dataParam.layer = "percent"
  /\ dataParam.ok /\ dataParam.inner.ok /\ dataParam.inner.inner.ok

\* The link is a structurally valid user-signup-confirm link whose payload
\* has the keys Email, Name, Code and Id, with a valid address and a
\* UUID-shaped Id.
SignupScenario ==
  /\ ThreeSegments
  /\ isValidOrganization(Segment(1))
  /\ Segment(2) = T_user_signup_confirm
  /\ isValidUUID(Segment(3))
  /\ WellEncoded(input.url.data)
  /\ LET payload == encodedPayload(input.url.data)
     IN  /\ payload.t = "object"
         /\ Keys(payload.v) = {k_Email, k_Name, k_Code, k_Id}
         /\ Get(payload.v, k_Email).t = "string"
         /\ isEmail(Get(payload.v, k_Email).v)
         /\ Get(payload.v, k_Name).t = "string"
         /\ Get(payload.v, k_Code).t = "string"
         /\ Get(payload.v, k_Id).t = "string"
         /\ isUuidShaped(Get(payload.v, k_Id).v)

\* C9: a structurally valid user-signup-confirm link whose payload has Email
\* (a valid address), Name, Code and Id = X, X UUID-shaped, is parsed with
\* success, and the validated data has email = Email, orgUserId = X and no
\* customerId.
C9_SignupScenario ==
  (SignupScenario /\ Terminal) =>
    /\ result.value.success
    /\ LET payload == encodedPayload(input.url.data)
           data == result.value.data.data.v
       IN  /\ Get(data, k_email) = Get(payload.v, k_Email)
           /\ Get(data, k_orgUserId) = Get(payload.v, k_Id)
           /\ ~Has(data, k_customerId)

\* The scenario has been parsed with an Id that is UUID-shaped but not of
\* version 4.
C9_Witness ==
  /\ SignupScenario
  /\ Terminal
  /\ result.value.success
  /\ ~isValidUUID(Get(encodedPayload(input.url.data).v, k_Id).v)

----------------------------------------------------------------------------
(* C10 *)

NonEmptyString(x) == x.t = "string" /\ x.v # <<>>
ValidEmail(x) == x.t = "string" /\ isEmail(x.v)
LengthWithin(x, max) == x.t = "string" /\ Len(x.v) >= 1 /\ Len(x.v) <= max
TrimmedLengthWithin(x, max) ==
  x.t = "string" /\ Len(trim(x.v)) >= 1 /\ Len(trim(x.v)) <= max
AbsentOr(x, P(_)) == x.t = "undefined" \/ P(x)
UuidShaped(x) == x.t = "string" /\ isUuidShaped(x.v)
IsString(x) == x.t = "string"

\* The schemas as C10 states them.
StatedSchemaHolds(type, e) ==
  CASE type = T_user_invite_confirm ->
         /\ NonEmptyString(Get(e, k_username))
         /\ ValidEmail(Get(e, k_email))
         /\ LengthWithin(Get(e, k_invitedBy), InvitedByMaxLen)
         /\ AbsentOr(Get(e, k_orgUserId), UuidShaped)
    [] type = T_user_signup_confirm ->
         /\ ValidEmail(Get(e, k_email))
         /\ AbsentOr(Get(e, k_orgUserId), UuidShaped)
    [] type = T_customer_email_verification ->
         /\ NonEmptyString(Get(e, k_customerId))
         /\ LengthWithin(Get(e, k_name), NameMaxLen)
         /\ ValidEmail(Get(e, k_email))
    [] type = T_forgot_password ->
         /\ NonEmptyString(Get(e, k_username))
         /\ ValidEmail(Get(e, k_email))

\* The schemas with the trimming of invitedBy and the constraints of the
\* optional fields of user-signup-confirm.
AmendedSchemaHolds(type, e) ==
  CASE type = T_user_invite_confirm ->
         /\ NonEmptyString(Get(e, k_username))
         /\ ValidEmail(Get(e, k_email))
         /\ TrimmedLengthWithin(Get(e, k_invitedBy), InvitedByMaxLen)
         /\ AbsentOr(Get(e, k_orgUserId), UuidShaped)
    [] type = T_user_signup_confirm ->
         /\ ValidEmail(Get(e, k_email))
         /\ AbsentOr(Get(e, k_username), NonEmptyString)
         /\ AbsentOr(Get(e, k_firstName), IsString)
         /\ AbsentOr(Get(e, k_lastName), IsString)
         /\ AbsentOr(Get(e, k_orgUserId), UuidShaped)
    [] type = T_customer_email_verification ->
         /\ NonEmptyString(Get(e, k_customerId))
         /\ LengthWithin(Get(e, k_name), NameMaxLen)
         /\ ValidEmail(Get(e, k_email))
    [] type = T_forgot_password ->
         /\ NonEmptyString(Get(e, k_username))
         /\ ValidEmail(Get(e, k_email))

\* validateData has run on an object, with one of the four flow types.
ValidatorRan == locals.validationResult # Pending

validatedInput == IF IsParse THEN locals.decodeResult.data ELSE input.data

ValidatedObject ==
  ValidatorRan /\ isValidRegistrationType(currentType) /\ validatedInput.t = "object"

\* C10 as stated: validateData succeeds exactly when the payload satisfies
\* the schema of the flow type as the claim words it (invitedBy of 1-100
\* characters; user-signup-confirm requires only a valid email and a
\* UUID-shaped orgUserId if present).
C10_StatedSchemas ==
  ValidatedObject =>
    (locals.validationResult.success <=> StatedSchemaHolds(currentType, validatedInput.v))

\* C10, amended: validateData succeeds exactly when the payload satisfies the
\* schema of the flow type, where invitedBy is measured after trimming white
\* space and the optional fields of user-signup-confirm, when present, are a
\* non-empty username, string firstName and lastName, UUID-shaped orgUserId.
C10_SchemaByFlowType ==
  ValidatedObject =>
    (locals.validationResult.success <=> AmendedSchemaHolds(currentType, validatedInput.v))

\* An invitedBy longer than the limit, but within it once trimmed, has been
\* accepted under user-invite-confirm.
C10_Witness ==
  /\ ValidatedObject
  /\ currentType = T_user_invite_confirm
  /\ locals.validationResult.success
  /\ Len(Get(validatedInput.v, k_invitedBy).v) > InvitedByMaxLen

----------------------------------------------------------------------------
(* C11 *)

\* The declared fields of the schema that the payload e violates, in schema order.
failingFields(schema, e) ==
  SelectSeq(schema, LAMBDA field : fieldIssues(field, Get(e, field.key)) # <<>>)

\* The "path: message" pairs of the failing fields, joined.
joinedPairs(schema, e) ==
  LET failing == failingFields(schema, e)
  IN  join([i \in DOMAIN failing |->
              <<<<failing[i].key>>, ": ",
                fieldIssues(failing[i], Get(e, failing[i].key))[1].message>>],
           ", ")

\* details lists every failing field, as path and message, in schema order.
DetailsListFailingFields(schema, e, details) ==
  LET failing == failingFields(schema, e)
  IN  /\ Len(details) = Len(failing)
      /\ \A i \in DOMAIN failing :
           /\ details[i].path = <<failing[i].key>>
           /\ details[i].message = fieldIssues(failing[i], Get(e, failing[i].key))[1].message

ValidationFailedOnObject == ValidatedObject /\ ~locals.validationResult.success

\* C11 as stated: when k >= 1 fields of the payload violate the schema,
\* validateData returns one VALIDATION_ERROR whose details lists every failing
\* field in schema order and whose message is the joined "path: message"
\* pairs of those entries.
C11_MessageIsJoinedPairs ==
  ValidationFailedOnObject =>
    LET schema == schemaFor(currentType)
        error == locals.validationResult.error
    IN  /\ error.code = "VALIDATION_ERROR"
        /\ DetailsListFailingFields(schema, validatedInput.v, error.details)
        /\ error.message = joinedPairs(schema, validatedInput.v)

\* C11, amended: validation does not stop at the first failing field; when
\* k >= 1 fields of the payload violate the schema, validateData returns one
\* VALIDATION_ERROR whose details lists every failing field, with its path and
\* message, in schema order, and whose message is "Data validation failed: "
\* followed by the joined "path: message" pairs of those entries.
C11_AllFailingFieldsReported ==
  ValidatedObject =>
    LET schema == schemaFor(currentType)
        failing == failingFields(schema, validatedInput.v)
        error == locals.validationResult.error
    IN  /\ locals.validationResult.success <=> failing = <<>>
        /\ failing # <<>> =>
             /\ error.code = "VALIDATION_ERROR"
             /\ DetailsListFailingFields(schema, validatedInput.v, error.details)
             /\ error.message =
                  <<"Data validation failed: ">> \o joinedPairs(schema, validatedInput.v)

\* A payload with three failing fields has been rejected with three entries.
C11_Witness ==
  /\ ValidationFailedOnObject
  /\ Len(failingFields(schemaFor(currentType), validatedInput.v)) >= 3
  /\ Len(locals.validationResult.error.details) >= 3

----------------------------------------------------------------------------
(* C12 *)

\* Two values are the same: objects have the same keys with the same values
\* (whatever the order of the keys), other values are equal.
SameValue(a, b) ==
  IF a.t = "object" /\ b.t = "object"
  THEN /\ Keys(a.v) = Keys(b.v)
       /\ \A key \in Keys(a.v) : Get(a.v, key) = Get(b.v, key)
  ELSE a = b

\* The value the normalizer returned in this invocation.
normalized == locals.decodeResult.data

\* C12: normalization is idempotent: normalizing the normalized payload
\* again, under the same flow type, changes no key and no value.
C12_NormalizationIdempotent ==
  HasNormalized => SameValue(transformDataKeys(normalized, currentType), normalized)

----------------------------------------------------------------------------
(* C13 *)

\* decodeDataParam has been called with the data parameter the link generator
\* makes of a JSON object.
DecodedGeneratedObject ==
  /\ entry = "decodeDataParam"
  /\ Terminal
  /\ WellEncoded(input.encodedData)
  /\ LET o == encodedPayload(input.encodedData)
     IN  /\ o.t = "object"
         /\ input.encodedData =
              generateRegistrationUrl(s_acme, T_forgot_password, uuidA, o).data

\* C13: for every JSON object o, decodeDataParam of the data parameter the
\* link generator makes of o returns success with data equal to o, nested
\* structures and null-valued fields included.
C13_RoundTrip ==
  DecodedGeneratedObject =>
    /\ result.value.success
    /\ SameValue(result.value.data, encodedPayload(input.encodedData))

----------------------------------------------------------------------------
(* C14 *)

\* One of the three layers of the data parameter is malformed: a bad
\* percent-escape, a character outside the base64 alphabet, or a text that is
\* no JSON (the empty string included).
SomeLayerMalformed(dataParam) ==
  \/ ~dataParam.ok
  \/ ~dataParam.inner.ok
  \/ ~dataParam.inner.inner.ok

\* C14: when the percent-decoding, the base64-decoding or the JSON parsing of
\* the data parameter fails, decodeDataParam returns success:false with code
\* DECODE_ERROR and the low-level cause in details, and no decoded value.
C14_AnyLayerFailureIsDecodeError ==
  (/\ entry = "decodeDataParam"
   /\ Terminal
   /\ SomeLayerMalformed(input.encodedData)) =>
    /\ ~result.threw
    /\ ~result.value.success
    /\ result.value.error.code = "DECODE_ERROR"
    /\ result.value.error.details # <<>>
    /\ ~HasDecoded

----------------------------------------------------------------------------
(* C15 *)

InvalidFormat ==
  Failure("INVALID_URL",
          <<"Invalid URL format. Expected: /<organization>/<registration-type>/<token>">>,
          <<>>)

\* The link is accepted by new URL and its path has other than three
\* non-empty segments.
NotThreeSegments ==
  IsParse /\ input.url.valid /\ Len(pathPartsOf(input.url.pathname)) # 3

----------------------------------------------------------------------------
(* C16 *)

\* The link has three valid segments and no data query parameter.
ValidSegmentsNoData ==
  /\ ThreeSegments
  /\ isValidOrganization(Segment(1))
  /\ isValidRegistrationType(Segment(2))
  /\ isValidUUID(Segment(3))
  /\ input.url.data = NullParam

\* C16: a link with three valid path segments and no data query parameter is
\* rejected with MISSING_PARAM, and the decoder is never invoked.
C16_MissingDataParameter ==
  (ValidSegmentsNoData /\ Terminal) =>
    /\ ~result.threw
    /\ ~result.value.success
    /\ ErrorCode = "MISSING_PARAM"
    /\ trace = <<"Start", "Failed">>
    /\ locals.jsonData = Undefined
    /\ locals.decodeResult = Pending

\* Such a link has been rejected.
C16_Witness ==
  /\ ValidSegmentsNoData
  /\ Terminal
  /\ ErrorCode = "MISSING_PARAM"

----------------------------------------------------------------------------
(* C17 *)

\* The i-th key of the mapping table is in the decoded payload with the value null.
NullAt(i) ==
  Has(decodedEntries, keyMappings[i][1]) /\ Get(decodedEntries, keyMappings[i][1]) = Null

\* A spelling listed after the i-th for the same canonical key is in the
\* decoded payload.
LaterSpellingPresent(i) ==
  \E j \in DOMAIN keyMappings :
    /\ j > i
    /\ keyMappings[j][2] = keyMappings[i][2]
    /\ Has(decodedEntries, keyMappings[j][1])

\* C17 as stated: for every key of the mapping table whose value in the
\* payload is null, the normalized payload does not contain the canonical key
\* at all.
C17_NullMappedKeyAbsent ==
  NormalizedObject =>
    \A i \in DOMAIN keyMappings :
      NullAt(i) => ~Has(normalizedEntries, keyMappings[i][2])

\* C17, amended: for every key of the mapping table whose value in the
\* payload is null, and after which no other spelling of the same canonical
\* key is present, the normalized payload has the canonical key with the value
\* undefined: the key is present, its value is neither null nor a placeholder.
C17_NullMappedKeyUndefined ==
  NormalizedObject =>
    \A i \in DOMAIN keyMappings :
      (NullAt(i) /\ ~LaterSpellingPresent(i)) =>
        /\ Has(normalizedEntries, keyMappings[i][2])
        /\ Get(normalizedEntries, keyMappings[i][2]) = Undefined

\* A payload with Email = null and no key email has been normalized.
C17_Witness ==
  /\ NormalizedObject
  /\ Get(decodedEntries, k_Email) = Null
  /\ ~Has(decodedEntries, k_email)
  /\ Has(normalizedEntries, k_email)

----------------------------------------------------------------------------
(* C18 *)

\* The keys of the mapping table.
TableKeys == {keyMappings[i][1] : i \in DOMAIN keyMappings}

\* C18: every key of the payload that is not in the mapping table and is not
\* Id, id or customerId is in the normalized payload under its name with the
\* first character lower-cased, with its original value.
C18_UnknownKeysPassThrough ==
  NormalizedObject =>
    \A key \in Keys(decodedEntries) \ (TableKeys \cup {k_Id, k_id, k_customerId}) :
      /\ Has(normalizedEntries, camelKeyOf(key))
      /\ Get(normalizedEntries, camelKeyOf(key)) = Get(decodedEntries, key)

----------------------------------------------------------------------------
(* C19 *)

\* C19: when the flow type is none of customer-email-verification,
\* user-signup-confirm and user-invite-confirm (forgot-password, or no type
\* given), the value X of Id or id is written to customerId, and orgUserId is
\* not set from it.
C19_FallbackToCustomerId ==
  (/\ NormalizedObject
   /\ currentType \notin {T_customer_email_verification, T_user_signup_confirm,
                          T_user_invite_confirm}
   /\ Has(decodedEntries, k_Id) # Has(decodedEntries, k_id)
   /\ Keys(decodedEntries) \cap ExplicitIdentifierKeys = {}) =>
    LET X == IF Has(decodedEntries, k_Id) THEN Get(decodedEntries, k_Id)
             ELSE Get(decodedEntries, k_id)
    IN  /\ Get(normalizedEntries, k_customerId) = X
        /\ ~Has(normalizedEntries, k_orgUserId)

----------------------------------------------------------------------------
(* C20 *)

UsernameSpellings == {k_UserName, k_Username, k_username}
EmailSpellings == {k_Email, k_email}

\* A forgot-password link whose payload has a username and a valid email, in
\* one or more spellings, and none of Id, id, customerId, CustomerId,
\* OrgUserId and orgUserId, has been parsed.
ForgotPasswordScenario ==
  /\ IsParse
  /\ Terminal
  /\ NormalizedObject
  /\ currentType = T_forgot_password
  /\ Keys(decodedEntries) \cap UsernameSpellings # {}
  /\ \A key \in Keys(decodedEntries) \cap UsernameSpellings :
       NonEmptyString(Get(decodedEntries, key))
  /\ Keys(decodedEntries) \cap EmailSpellings # {}
  /\ \A key \in Keys(decodedEntries) \cap EmailSpellings :
       ValidEmail(Get(decodedEntries, key))
  /\ Keys(decodedEntries) \cap ({k_Id, k_id} \cup ExplicitIdentifierKeys) = {}

\* C20: a forgot-password payload with a username and a valid email and no
\* Id, customerId or orgUserId normalizes to a payload with neither customerId
\* nor orgUserId, and validates with success.
C20_ForgotPasswordWithoutId ==
  ForgotPasswordScenario =>
    /\ ~Has(normalizedEntries, k_customerId)
    /\ ~Has(normalizedEntries, k_orgUserId)
    /\ locals.validationResult.success
    /\ result.value.success
    /\ Get(result.value.data.data.v, k_username).t = "string"
    /\ ~Has(result.value.data.data.v, k_customerId)

\* The scenario has happened with a payload of more keys than the two.
C20_Witness ==
  /\ ForgotPasswordScenario
  /\ result.value.success
  /\ Cardinality(Keys(decodedEntries)) > 2

----------------------------------------------------------------------------
(* C21 *)

\* [a-z0-9_-]{2,50}, case-insensitively
OrganizationShape(org) ==
  /\ Len(org) >= 2
  /\ Len(org) <= 50
  /\ \A i \in DOMAIN org : org[i] \in Lower \cup Upper \cup Digit \cup {"_", "-"}

\* xxxxxxxx-xxxx-4xxx-yxxx-xxxxxxxxxxxx, x a hexadecimal digit, y one of 8 9 a b
TokenV4Shape(token) ==
  /\ Len(token) = 36
  /\ \A i \in DOMAIN token :
       IF i \in {9, 14, 19, 24} THEN token[i] = "-"
       ELSE IF i = 15 THEN token[i] = "4"
       ELSE IF i = 20 THEN token[i] \in {"8", "9", "a", "b", "A", "B"}
       ELSE token[i] \in HexDigit

ParseSucceeded == IsParse /\ Terminal /\ ~result.threw /\ result.value.success

----------------------------------------------------------------------------
(* C22 *)

\* validateData has been called with a flow type outside the four.
ValidatedUnknownType ==
  /\ entry = "validateData"
  /\ Terminal
  /\ input.registrationType \notin
       {T_user_invite_confirm, T_user_signup_confirm,
        T_customer_email_verification, T_forgot_password}

\* C22: validateData called with a flow type outside the four returns
\* success:false with code INVALID_DATA whatever the data is, no schema being
\* applied; parseRegistrationUrl never calls validateData with such a type
\* and never returns INVALID_DATA.
C22_UnknownTypeInvalidData ==
  /\ ValidatedUnknownType =>
       result = Returned(Failure("INVALID_DATA",
                                 <<"Unknown registration type: ", input.registrationType>>,
                                 <<>>))
  /\ (IsParse /\ ValidatorRan) =>
       currentType \in {T_user_invite_confirm, T_user_signup_confirm,
                        T_customer_email_verification, T_forgot_password}
  /\ (IsParse /\ Terminal /\ ~result.value.success) => ErrorCode # "INVALID_DATA"

\* validateData has been called with an unknown flow type and a payload
\* every flow schema accepts.
C22_Witness ==
  /\ ValidatedUnknownType
  /\ input.data = Obj(FullPayload)
  /\ ErrorCode = "INVALID_DATA"

----------------------------------------------------------------------------
(* C23 *)

\* Every finished invocation has the result it has when run alone, and two
\* finished invocations of the same function on the same input have the
\* same result.
ResultsAsAlone ==
  \A i \in DOMAIN calls :
    ~callRunning(calls[i]) =>
      /\ calls[i].result = resultAlone(calls[i])
      /\ \A j \in DOMAIN calls :
           (/\ ~callRunning(calls[j])
            /\ calls[j].entry = calls[i].entry
            /\ calls[j].input = calls[i].input) => calls[j].result = calls[i].result

\* A step changes one invocation only, and its outcome is a function of
\* that invocation's own arguments and frame.
StepsAreLocal ==
  \E i \in DOMAIN calls :
    /\ callRunning(calls[i])
    /\ calls[i]' = stepCall(calls[i])
    /\ \A j \in DOMAIN calls \ {i} : calls[j]' = calls[j]

----------------------------------------------------------------------------
(* C24 *)

\* C24: when the payload has both Id and id, the identifier is resolved from
\* the value of Id, whatever that value is (the empty string and the other
\* falsy values included); id is used only when Id is absent.
C24_IdBeforeLowercaseId ==
  (/\ NormalizedObject
   /\ Has(decodedEntries, k_Id)
   /\ Has(decodedEntries, k_id)
   /\ Keys(decodedEntries) \cap ExplicitIdentifierKeys = {}) =>
    Get(normalizedEntries, idTarget(currentType)) = Get(decodedEntries, k_Id)

----------------------------------------------------------------------------
(* C26 *)

\* The store holds at most 100 entries, the newest first.
StoreBoundedNewestFirst ==
  /\ Len(logs) <= 100
  /\ \A i, j \in DOMAIN logs : i < j => logs[i].timestamp > logs[j].timestamp

\* An addLog puts the new entry first and keeps the entries before it in
\* their order, all of them or, of 100, all but the last (the oldest); a
\* clearLogs leaves the store empty.
StoreStep ==
  IF clock' = clock + 1
  THEN /\ logs'[1].timestamp = clock'
       /\ Tail(logs') = IF Len(logs) = 100 THEN SubSeq(logs, 1, 99) ELSE logs
  ELSE logs' = <<>>

\* C26: after any sequence of addLog and clearLogs calls the store holds at
\* most 100 entries, newest first; the 101st entry evicts the oldest one, and
\* clearLogs leaves the store empty.
C26_LogStoreBounded == []StoreBoundedNewestFirst /\ [][StoreStep]_vars

\* The store is full and its oldest entry is no longer the first one added.
C26_Witness ==
  /\ Len(logs) = 100
  /\ logs[100].timestamp > 1

----------------------------------------------------------------------------
\* C25: the proxy answers success:true only when the reply of the external
\* API has a 2xx status and its body's status field equals "OK" whatever the
\* case; a 2xx reply whose status field is missing or different is answered
\* with success:false, code INVALID_STATUS and HTTP 400; a reply that is not
\* 2xx is answered with code HTTP_<status> and the same HTTP status.
Replied(r) == requests[r].pc = "Done" /\ requests[r].reply.status # 0

Is2xx(reply) == reply.status >= 200 /\ reply.status < 300

StatusIsOK(reply) ==
  /\ reply.data.t = "object"
  /\ Get(reply.data.v, k_status).t = "string"
  /\ toUpperCase(Get(reply.data.v, k_status).v) = s_OK

Answered(r, status, code) ==
  /\ ~requests[r].response.threw
  /\ requests[r].response.status = status
  /\ ~requests[r].response.body.success
  /\ requests[r].response.body.error.code = code

AnsweredSuccess(r) ==
  ~requests[r].response.threw /\ requests[r].response.body.success

C25_ReplyDecidesOutcome ==
  \A r \in DOMAIN requests :
    Replied(r) =>
      LET reply == requests[r].reply
      IN  /\ AnsweredSuccess(r) => Is2xx(reply) /\ StatusIsOK(reply)
          /\ Is2xx(reply) /\ ~StatusIsOK(reply) => Answered(r, 400, "INVALID_STATUS")
          /\ ~Is2xx(reply) => Answered(r, reply.status, <<"HTTP_", reply.status>>)

----------------------------------------------------------------------------
\* C27: no entry the proxy adds to the log store holds a password in plain
\* text: the password field of the logged body is absent or empty when the
\* request carries no password, and a string of '*' of the password's length
\* otherwise, on the success path and on every error path.
sentPassword(id) == Get(requests[id].requestData.v, k_password)

loggedPassword(log) == Get(log.body.v, k_password)

PasswordMasked(log) ==
  /\ log.body.t = "object"
  /\ IF sentPassword(log.id).t = "string" /\ sentPassword(log.id).v # <<>>
     THEN loggedPassword(log) = Str(Rep("*", Len(sentPassword(log.id).v)))
     ELSE loggedPassword(log) \in {Undefined, Str(<<>>)}

C27_LoggedPasswordMasked == \A i \in DOMAIN logs : PasswordMasked(logs[i])

\* The store holds the entry of a replied request and the entry of a failed
\* call, both of requests with a password.
C27_Witness ==
  \E i, j \in DOMAIN logs :
    /\ logs[i].response.status = 200
    /\ loggedPassword(logs[i]) = Str(Rep("*", Len(s_Passw0rd)))
    /\ logs[j].response.status = 503
    /\ loggedPassword(logs[j]) = Str(Rep("*", Len(s_secret)))

----------------------------------------------------------------------------
\* C28: a POST adds at most one entry to the log store, so no two entries
\* hold the same log id, whichever path the request takes: success, error
\* reply of the external API, or an exception thrown after the external call.
C28_OneLogPerRequest ==
  \A i, j \in DOMAIN logs : i # j => logs[i].id # logs[j].id

----------------------------------------------------------------------------
(* C29 *)

\* The fields the schema of a flow type declares.
DeclaredFields(registrationType) ==
  CASE registrationType = T_user_invite_confirm ->
         {k_username, k_email, k_orgUserId, k_invitedBy}
    [] registrationType = T_user_signup_confirm ->
         {k_username, k_email, k_firstName, k_lastName, k_orgUserId}
    [] registrationType = T_customer_email_verification ->
         {k_customerId, k_name, k_email}
    [] registrationType = T_forgot_password -> {k_username, k_email}

ValidateSucceeded ==
  entry = "validateData" /\ Terminal /\ ~result.threw /\ result.value.success

----------------------------------------------------------------------------
(* C30 *)

\* The rows of the mapping table for a canonical key whose spelling is in the
\* decoded payload.
PresentSpellings(canonical) ==
  {i \in DOMAIN keyMappings :
     keyMappings[i][2] = canonical /\ Has(decodedEntries, keyMappings[i][1])}

\* The value the decoded payload holds for the present spelling listed last.
LastSpellingValue(canonical) ==
  Get(decodedEntries,
      keyMappings[CHOOSE i \in PresentSpellings(canonical) :
                    \A j \in PresentSpellings(canonical) : j <= i][1])

CanonicalKeys == {keyMappings[i][2] : i \in DOMAIN keyMappings}

SeveralSpellings(canonical) == Cardinality(PresentSpellings(canonical)) >= 2

Occurrences(e, key) == Cardinality({i \in DOMAIN e : e[i].k = key})

\* The same payload with its keys in the opposite order normalizes to the
\* same value of the key.
SameForReversedKeys(canonical) ==
  Get(transformDataKeys(Obj(Reverse(decodedEntries)), currentType).v, canonical)
    = Get(normalizedEntries, canonical)

\* C30 as stated: when the payload holds several spellings of one canonical
\* key, the normalized payload holds the canonical key exactly once, with the
\* value of the spelling listed last in the mapping table, whatever the order
\* of the keys of the payload.
C30_LastSpellingWins ==
  NormalizedObject =>
    \A c \in CanonicalKeys :
      SeveralSpellings(c) =>
        /\ Occurrences(normalizedEntries, c) = 1
        /\ Get(normalizedEntries, c) = LastSpellingValue(c)
        /\ SameForReversedKeys(c)

\* C30, amended: when the payload holds several spellings of one canonical
\* key, the normalized payload holds the canonical key exactly once, with the
\* value of the spelling that is listed last in the mapping table among those
\* the payload holds, or undefined when that value is null, whatever the
\* order of the keys of the payload.
C30_LastSpellingWinsNullUndefined ==
  NormalizedObject =>
    \A c \in CanonicalKeys :
      SeveralSpellings(c) =>
        /\ Occurrences(normalizedEntries, c) = 1
        /\ Get(normalizedEntries, c) =
             (IF LastSpellingValue(c) = Null THEN Undefined ELSE LastSpellingValue(c))
        /\ SameForReversedKeys(c)

\* A payload that lists email before Email, both with a string, has been
\* normalized: email holds the value of the key email.
C30_Witness ==
  /\ NormalizedObject
  /\ Len(decodedEntries) >= 2
  /\ decodedEntries[1].k = k_email
  /\ decodedEntries[2].k = k_Email
  /\ decodedEntries[1].x = Str(s_no_tld)
  /\ decodedEntries[2].x = Str(s_email)
  /\ Get(normalizedEntries, k_email) = Str(s_no_tld)

====
